---- MODULE Spec2Model ----
(***************************************************************************)
(* A model of the mini-me text model: the rope-backed Editor with its      *)
(* focus/anchor Selection (src/src/editor/mod.rs, src/src/editor/          *)
(* selection.rs).  The buffer is the rope's character sequence; every      *)
(* Editor method is an operator on an editor record, and every public      *)
(* method is an action.  A rope call with an out-of-range index panics in  *)
(* the code; the model records that in `panicked` and stops.               *)
(***************************************************************************)
EXTENDS Naturals, Integers, Sequences, FiniteSets, TLC

\* ------------------------------------------------------------------ bounds
\* Longest buffer (in characters) the edit actions build.
MaxLen == 3
\* Largest column handed to move_to_col.
MaxCol == 3
\* Longest string handed to insert_str.
MaxStr == 2
\* Longest buffer a key press may build in a read session.
KeyMaxLen == 4
\* Most keys pressed in a typing session.
MaxKeys == 6
\* Longest buffer a Tab session starts from.
TabLen == 5
\* Most lines of a buffer handed to the viewport planner.
MaxLines == 6
\* Most rows of the terminal the planner asks for.
MaxRows == 8

VARIABLES
    buf,        \* Editor.buf: the rope's characters, a sequence
    focus,      \* Editor.selection.focus: [ln, col]
    anchor,     \* Editor.selection.anchor: None or Some(cursor)
    panicked,   \* a rope call was handed an out-of-range index
    op,         \* the last method called, the path it took, what it was given
    ret,        \* the value the last curr_sel returned: None or Some(text)
    rt,         \* the insert/delete round trip's script (RtSpec only)
                \* [orig, p, s, pc, left], None otherwise
    ses,        \* the read loop (KeySpec, TypeSpec, TabSpec): [pc, out, keys,
                \* event], event what is kept of the last one read; None
                \* otherwise
    view        \* the renderer's terminal and planned range (ViewSpec):
                \* [size, range, pc], None otherwise

vars == <<buf, focus, anchor, panicked, op, ret, rt, ses, view>>

\* ----------------------------------------------------------------- values
NL == "\n"
Char == {"a", "b", NL}

None == <<>>
Some(x) == <<x>>
unwrap(o) == o[1]

Cursor(l, c) == [ln |-> l, col |-> c]

Min(a, b) == IF a < b THEN a ELSE b
Max(a, b) == IF a < b THEN b ELSE a

SeqsUpTo(S, n) == UNION {[1..k -> S] : k \in 0..n}

\* ------------------------------------------------------------------- rope
\* ropey's Rope, by what the Editor uses of it.  Indices are 0-based as in
\* the code; a range (a, b) is the half-open a..b.
len_chars(r) == Len(r)

Breaks(r) == {i \in 1..Len(r) : r[i] = NL}

\* One more line than there are line breaks: the empty rope has one line.
len_lines(r) == Cardinality(Breaks(r)) + 1

\* The char index of the start of line ln; ln = len_lines gives len_chars.
\* The rope panics for ln > len_lines: callers check LineIdxOk first.
line_to_char(r, ln) ==
    IF ln = 0 THEN 0
    ELSE IF ln > Cardinality(Breaks(r)) THEN Len(r)
    ELSE CHOOSE i \in Breaks(r) : Cardinality({j \in Breaks(r) : j <= i}) = ln

LineIdxOk(r, ln) == ln <= len_lines(r)

\* Line ln with its terminator; the rope panics for ln >= len_lines.
line(r, ln) == SubSeq(r, line_to_char(r, ln) + 1, line_to_char(r, ln + 1))

LineOk(r, ln) == ln < len_lines(r)

slice(r, a, b) == SubSeq(r, a + 1, b)

remove(r, a, b) == SubSeq(r, 1, a) \o SubSeq(r, b + 1, Len(r))

insert(r, idx, s) == SubSeq(r, 1, idx) \o s \o SubSeq(r, idx + 1, Len(r))

\* slice and remove panic unless a <= b <= len_chars; insert unless idx <= len_chars.
RangeOk(r, a, b) == 0 <= a /\ a <= b /\ b <= Len(r)

\* A slice without its single trailing line terminator.
trimmed(s) ==
    IF Len(s) = 0 THEN s
    ELSE IF s[Len(s)] = NL THEN SubSeq(s, 1, Len(s) - 1)
    ELSE s

\* ----------------------------------------------------------------- editor
\* An editor record: the Editor's fields, ok = no rope call has panicked,
\* br = the path the last method took.
Ed(b, f, a) == [buf |-> b, focus |-> f, anchor |-> a, ok |-> TRUE, br |-> "none"]

Panic(e) == [e EXCEPT !.ok = FALSE]

line_count(e) == len_lines(e.buf)

char_count(e) == len_chars(e.buf)

curr_ln_len(e) == Len(trimmed(line(e.buf, e.focus.ln)))

clamp_min_raw(e) ==
    IF ~e.ok THEN e
    ELSE IF ~LineOk(e.buf, e.focus.ln) THEN Panic(e)
    ELSE [e EXCEPT !.focus.col = Min(e.focus.col, Len(line(e.buf, e.focus.ln)))]

clamp(e) ==
    IF ~e.ok THEN e
    ELSE IF ~LineOk(e.buf, e.focus.ln) THEN Panic(e)
    ELSE [e EXCEPT !.focus.col = Min(e.focus.col, curr_ln_len(e))]

\* z.wrapping_add(offset): below zero it wraps to a value beyond every buffer,
\* which the model keeps as a negative number, out of range all the same.
rope_idx(e, cursor, offset) == line_to_char(e.buf, cursor.ln) + cursor.col + offset

fix_anchor_keep(e) == e

fix_anchor(e) ==
    IF e.anchor = Some(e.focus) THEN [e EXCEPT !.anchor = None] ELSE e

set_anchor_always(e, anchored) ==
    IF anchored THEN [e EXCEPT !.anchor = Some(e.focus)]
    ELSE [e EXCEPT !.anchor = None]

set_anchor(e, anchored) ==
    IF anchored
    THEN IF e.anchor = None THEN [e EXCEPT !.anchor = Some(e.focus)] ELSE e
    ELSE [e EXCEPT !.anchor = None]

\* buf.remove(z..=z) at z = rope_idx(focus, offset).
delete_char_no_offset(e, offset) ==
    IF ~e.ok THEN e
    ELSE IF ~LineIdxOk(e.buf, e.focus.ln) THEN Panic(e)
    ELSE LET z == rope_idx(e, e.focus, 0)
         IN  IF ~RangeOk(e.buf, z, z + 1) THEN Panic(e)
             ELSE [e EXCEPT !.buf = remove(e.buf, z, z + 1)]

delete_char(e, offset) ==
    IF ~e.ok THEN e
    ELSE IF ~LineIdxOk(e.buf, e.focus.ln) THEN Panic(e)
    ELSE LET z == rope_idx(e, e.focus, offset)
         IN  IF ~RangeOk(e.buf, z, z + 1) THEN Panic(e)
             ELSE [e EXCEPT !.buf = remove(e.buf, z, z + 1)]

insert_char(e, offset, c) ==
    IF ~e.ok THEN e
    ELSE IF ~LineIdxOk(e.buf, e.focus.ln) THEN Panic(e)
    ELSE LET z == rope_idx(e, e.focus, offset)
         IN  IF ~RangeOk(e.buf, z, z) THEN Panic(e)
             ELSE [e EXCEPT !.buf = insert(e.buf, z, <<c>>)]

\* The indices are compared, not the cursors; the smaller one starts the
\* removed range and the focus is moved only when the anchor's is not larger.
delete_selection(e, focus_, anchor_) ==
    IF ~e.ok THEN e
    ELSE IF ~LineIdxOk(e.buf, anchor_.ln) \/ ~LineIdxOk(e.buf, focus_.ln) THEN Panic(e)
    ELSE LET anchor_idx == rope_idx(e, anchor_, 0)
             focus_idx  == rope_idx(e, focus_, 0)
         IN  IF focus_idx < anchor_idx
             THEN IF ~RangeOk(e.buf, focus_idx, anchor_idx) THEN Panic(e)
                  ELSE [e EXCEPT !.buf = remove(e.buf, focus_idx, anchor_idx),
                                 !.anchor = None]
             ELSE IF ~RangeOk(e.buf, anchor_idx, focus_idx) THEN Panic(e)
                  ELSE [e EXCEPT !.focus = unwrap(e.anchor),
                                 !.buf = remove(e.buf, anchor_idx, focus_idx),
                                 !.anchor = None]

backspace(e0) ==
    LET e == clamp(e0)
    IN  IF ~e.ok THEN e
        ELSE IF e.anchor # None
        THEN [delete_selection(e, e.focus, unwrap(e.anchor)) EXCEPT !.br = "sel"]
        ELSE IF e.focus.col > 0
        THEN LET d == delete_char(e, -1)
             IN  IF ~d.ok THEN d
                 ELSE [d EXCEPT !.focus.col = e.focus.col - 1, !.br = "char"]
        ELSE IF e.focus.ln > 0
        THEN LET col == Len(line(e.buf, e.focus.ln - 1))
                 d   == delete_char(e, -1)
             IN  IF ~d.ok \/ col = 0 THEN Panic(d)
                 ELSE [d EXCEPT !.focus = Cursor(e.focus.ln - 1, col - 1), !.br = "join"]
        ELSE [e EXCEPT !.br = "noop"]

delete_no_join(e0) ==
    LET e == clamp(e0)
    IN  IF ~e.ok THEN e
        ELSE IF e.anchor # None
        THEN [delete_selection(e, e.focus, unwrap(e.anchor)) EXCEPT !.br = "sel"]
        ELSE IF e.focus.col < curr_ln_len(e)
        THEN [delete_char(e, 0) EXCEPT !.br = "char"]
        ELSE [e EXCEPT !.br = IF e.focus.ln + 1 < line_count(e) THEN "join" ELSE "noop"]

\* br tells the two disjuncts of the code's one condition apart.
delete(e0) ==
    LET e == clamp(e0)
    IN  IF ~e.ok THEN e
        ELSE IF e.anchor # None
        THEN [delete_selection(e, e.focus, unwrap(e.anchor)) EXCEPT !.br = "sel"]
        ELSE IF e.focus.col < curr_ln_len(e) \/ e.focus.ln + 1 < line_count(e)
        THEN [delete_char(e, 0) EXCEPT
                 !.br = IF e.focus.col < curr_ln_len(e) THEN "char" ELSE "join"]
        ELSE [e EXCEPT !.br = "noop"]

move_right(e0, anchored) ==
    LET c == clamp(e0)
    IN  IF ~c.ok THEN c
        ELSE LET e   == set_anchor(c, anchored)
                 len == curr_ln_len(e)
                 m   == IF e.focus.col < len
                        THEN [e EXCEPT !.focus.col = e.focus.col + 1, !.br = "step"]
                        ELSE IF e.focus.ln + 1 < line_count(e)
                        THEN [e EXCEPT !.focus = Cursor(e.focus.ln + 1, 0), !.br = "wrap"]
                        ELSE [e EXCEPT !.br = "stay"]
             IN  fix_anchor(m)

move_left_no_clamp(e0, anchored) ==
    LET e == set_anchor(e0, anchored)
        m == IF e.focus.col > 0
             THEN [e EXCEPT !.focus.col = e.focus.col - 1, !.br = "step"]
             ELSE IF e.focus.ln > 0
             THEN LET up == [e EXCEPT !.focus.ln = e.focus.ln - 1]
                  IN  [up EXCEPT !.focus.col = curr_ln_len(up), !.br = "wrap"]
             ELSE [e EXCEPT !.br = "stay"]
    IN  fix_anchor(m)

move_left(e0, anchored) ==
    LET c == clamp(e0)
    IN  IF ~c.ok THEN c
        ELSE LET e == set_anchor(c, anchored)
                 m == IF e.focus.col > 0
                      THEN [e EXCEPT !.focus.col = e.focus.col - 1, !.br = "step"]
                      ELSE IF e.focus.ln > 0
                      THEN LET up == [e EXCEPT !.focus.ln = e.focus.ln - 1]
                           IN  [up EXCEPT !.focus.col = curr_ln_len(up), !.br = "wrap"]
                      ELSE [e EXCEPT !.br = "stay"]
             IN  fix_anchor(m)

\* move_up that clamps the column to the line it arrives on.
move_up_clamped(e0, anchored) ==
    LET e == set_anchor(e0, anchored)
    IN  IF e.focus.ln = 0
        THEN fix_anchor([e EXCEPT !.focus.col = 0, !.br = "stay"])
        ELSE fix_anchor([clamp([e EXCEPT !.focus.ln = e.focus.ln - 1])
                           EXCEPT !.br = "step"])

move_up(e0, anchored) ==
    LET e == set_anchor(e0, anchored)
        m == IF e.focus.ln = 0
             THEN [e EXCEPT !.focus.col = 0, !.br = "stay"]
             ELSE [e EXCEPT !.focus.ln = e.focus.ln - 1, !.br = "step"]
    IN  fix_anchor(m)

move_down_clamped(e0, anchored) ==
    LET e == set_anchor(e0, anchored)
    IN  IF e.focus.ln + 1 = line_count(e)
        THEN fix_anchor([e EXCEPT !.focus.col = curr_ln_len(e), !.br = "stay"])
        ELSE fix_anchor([clamp([e EXCEPT !.focus.ln = e.focus.ln + 1])
                           EXCEPT !.br = "step"])

move_down(e0, anchored) ==
    LET e == set_anchor(e0, anchored)
    IN  IF e.focus.ln + 1 = line_count(e)
        THEN fix_anchor([e EXCEPT !.focus.col = curr_ln_len(e), !.br = "stay"])
        ELSE fix_anchor([e EXCEPT !.focus.ln = e.focus.ln + 1, !.br = "step"])

\* A move to a column that pads the line with spaces up to it.
move_to_col_padding(e0, col, anchored) ==
    LET e == set_anchor(e0, anchored)
        k == clamp(e)
        short == Max(col - curr_ln_len(e), 0)
    IN  fix_anchor([k EXCEPT !.buf = insert(@, line_to_char(@, k.focus.ln) + curr_ln_len(k),
                                            [i \in 1..short |-> " "]),
                             !.focus.col = col])

move_to_col(e0, col, anchored) ==
    LET e == set_anchor(e0, anchored)
    IN  fix_anchor([e EXCEPT !.focus.col = col])

move_to_top(e) == [e EXCEPT !.focus.ln = 0]

move_to_bottom(e) == [e EXCEPT !.focus.ln = line_count(e) - 1]

move_to_line_end(e, anchored) ==
    IF ~LineOk(e.buf, e.focus.ln) THEN Panic(e)
    ELSE move_to_col(e, curr_ln_len(e), anchored)

type_char_keep_col(e0, c) ==
    LET k == clamp(e0)
        s == IF k.ok /\ k.anchor # None
             THEN delete_selection(k, k.focus, unwrap(k.anchor))
             ELSE k
        i == insert_char(s, 0, c)
    IN  IF ~i.ok THEN i
        ELSE IF c = NL
        THEN [i EXCEPT !.focus.ln = i.focus.ln + 1, !.br = "newline"]
        ELSE [i EXCEPT !.focus.col = i.focus.col + 1, !.br = "char"]

type_char(e0, c) ==
    LET k == clamp(e0)
        s == IF k.ok /\ k.anchor # None
             THEN delete_selection(k, k.focus, unwrap(k.anchor))
             ELSE k
        i == insert_char(s, 0, c)
    IN  IF ~i.ok THEN i
        ELSE IF c = NL
        THEN [i EXCEPT !.focus = Cursor(i.focus.ln + 1, 0), !.br = "newline"]
        ELSE [i EXCEPT !.focus.col = i.focus.col + 1, !.br = "char"]

\* str::lines(): the segments between line feeds, a final empty one dropped.
lines_count(s) ==
    Cardinality(Breaks(s)) + (IF Len(s) > 0 /\ s[Len(s)] # NL THEN 1 ELSE 0)

\* str.lines().last().unwrap_or_default()
lines_last(s) ==
    LET body  == trimmed(s)
        start == IF Breaks(body) = {} THEN 0
                 ELSE CHOOSE i \in Breaks(body) : \A j \in Breaks(body) : j <= i
    IN  SubSeq(body, start + 1, Len(body))

insert_str(e0, str) ==
    LET k == clamp(e0)
        s == IF k.ok /\ k.anchor # None
             THEN delete_selection(k, k.focus, unwrap(k.anchor))
             ELSE k
    IN  IF ~s.ok THEN s
        ELSE IF ~LineIdxOk(s.buf, s.focus.ln) THEN Panic(s)
        ELSE LET z     == rope_idx(s, s.focus, 0)
                 lines == Max(lines_count(str), 1)
             IN  IF ~RangeOk(s.buf, z, z) THEN Panic(s)
                 ELSE [s EXCEPT !.buf = insert(s.buf, z, str),
                                !.focus = Cursor(s.focus.ln + (lines - 1),
                                                 s.focus.col + Len(lines_last(str))),
                                !.br = IF lines > 1 THEN "multi" ELSE "single"]

\* The editor record with its value: .val is None or Some(text).
curr_sel(e) ==
    IF e.anchor = None THEN [ok |-> TRUE, val |-> None]
    ELSE LET a == unwrap(e.anchor)
         IN  IF ~LineIdxOk(e.buf, a.ln) \/ ~LineIdxOk(e.buf, e.focus.ln)
             THEN [ok |-> FALSE, val |-> None]
             ELSE LET anchor_idx == rope_idx(e, a, 0)
                      focus_idx  == rope_idx(e, e.focus, 0)
                      lo == IF focus_idx < anchor_idx THEN focus_idx ELSE anchor_idx
                      hi == IF focus_idx < anchor_idx THEN anchor_idx ELSE focus_idx
                  IN  IF ~RangeOk(e.buf, lo, hi) THEN [ok |-> FALSE, val |-> None]
                      ELSE [ok |-> TRUE, val |-> Some(trimmed(slice(e.buf, lo, hi)))]

\* Editor::contents(): the buffer without its single trailing line terminator.
contents_untrimmed(e) == e.buf

contents(e) == trimmed(e.buf)

\* ------------------------------------------------------------ keybindings
\* A crossterm event: a key with its code, its character (Char only) and its
\* modifiers, or anything else (code "Resize").
KeyEvent(code, c, shift, alt, ctrl) ==
    [code |-> code, c |-> c, shift |-> shift, alt |-> alt, ctrl |-> ctrl]

Key(code) == KeyEvent(code, "", FALSE, FALSE, FALSE)

Space == " "

is_whitespace(c) == c = Space

\* take_while(is_whitespace).count() over the first n characters of s.
leading_whitespace(s, n) ==
    LET m == Min(n, Len(s))
    IN  IF \A i \in 1..m : is_whitespace(s[i]) THEN m
        ELSE (CHOOSE i \in 1..m :
                 ~is_whitespace(s[i]) /\ \A j \in 1..(i - 1) : is_whitespace(s[j])) - 1

curr_ln_chars(e) == trimmed(line(e.buf, e.focus.ln))

delete_ln_range(e, start, end) ==
    IF ~e.ok THEN e
    ELSE LET idx == line_to_char(e.buf, e.focus.ln)
         IN  IF ~RangeOk(e.buf, idx + start, idx + end) THEN Panic(e)
             ELSE [e EXCEPT !.buf = remove(e.buf, idx + start, idx + end),
                            !.focus.col = IF e.focus.col >= end
                                          THEN e.focus.col - (end - start)
                                          ELSE e.focus.col]

\* for _ in 0..n { insert_char(0, c) }
RECURSIVE insert_char_n(_, _, _)
insert_char_n(e, n, c) ==
    IF n = 0 THEN e ELSE insert_char_n(insert_char(e, 0, c), n - 1, c)

soft_full(e) == 4

\* The Tab arm's soft: the spaces to the next multiple of 4.
soft(e) == 4 - (e.focus.col % 4)

enter_stops_without_alt_test(e, alt, ln_count) ==
    curr_ln_len(e) = 0 /\ e.focus.ln + 1 = ln_count

enter_stops_on_any_last_line(e, alt, ln_count) ==
    ~alt /\ e.focus.ln + 1 = ln_count

\* The Enter arm's condition.
enter_stops(e, alt, ln_count) ==
    ~alt /\ curr_ln_len(e) = 0 /\ e.focus.ln + 1 = ln_count

\* NormalKeybinding::process_key_event: the editor after the key and whether
\* the read loop goes on.
process_key_event(e, event) ==
    LET code     == event.code
        ln_count == line_count(e)
        shifted  == event.shift
        alt      == event.alt
        control  == event.ctrl
        go(r)    == [ed |-> r, cont |-> TRUE]
    IN  CASE code = "Down" -> go(move_down(e, shifted))
          [] code = "Up" -> go(move_up(e, shifted))
          [] code = "Left" -> go(move_left(e, shifted))
          [] code = "Right" -> go(move_right(e, shifted))
          [] code = "PageDown" -> go(move_to_bottom(e))
          [] code = "PageUp" -> go(move_to_top(e))
          [] code = "Home" ->
               LET leading_spaces ==
                       leading_whitespace(curr_ln_chars(e), Len(curr_ln_chars(e)))
               IN  IF e.focus.col = leading_spaces
                   THEN go(move_to_col(e, 0, shifted))
                   ELSE go(move_to_col(e, leading_spaces, shifted))
          [] code = "End" -> go(move_to_line_end(e, shifted))
          [] code = "Backspace" -> go(backspace(e))
          [] code = "Char" /\ event.c = "h" /\ control -> go(backspace(e))
          [] code = "Delete" -> go(delete(e))
          [] code = "Tab" ->
               LET k == clamp(e)
                   i == insert_char_n(k, soft(k), Space)
               IN  IF ~i.ok THEN go(i)
                   ELSE go([i EXCEPT !.focus.col = i.focus.col + soft(k)])
          [] code = "BackTab" ->
               LET k == clamp(e)
               IN  IF ~k.ok THEN go(k)
                   ELSE go(delete_ln_range(k, 0, leading_whitespace(curr_ln_chars(k), 4)))
          [] code = "Esc" -> [ed |-> e, cont |-> FALSE]
          [] code = "Enter" ->
               IF enter_stops(e, alt, ln_count)
               THEN [ed |-> e, cont |-> FALSE]
               ELSE go(type_char(e, NL))
          [] code = "Char" /\ ~(event.c = "h" /\ control) -> go(type_char(e, event.c))
          [] OTHER -> go(e)

\* Keybinding::read: only key events reach process_key_event.
read_event(e, event) ==
    IF event.code = "Resize" THEN [ed |-> e, cont |-> TRUE]
    ELSE process_key_event(e, event)

\* ---------------------------------------------------------------- actions
Cur == Ed(buf, focus, anchor)

MoveNames == {"move_right", "move_left", "move_up", "move_down",
              "move_to_col", "move_to_line_end"}

Strs == SeqsUpTo(Char, MaxStr)

\* A method call: the editor takes the returned record's fields, unless a
\* rope call panicked, which ends the run with the editor as it was.
Apply(r) ==
    /\ ~panicked
    /\ IF r.ok
       THEN /\ buf' = r.buf
            /\ focus' = r.focus
            /\ anchor' = r.anchor
            /\ panicked' = FALSE
       ELSE /\ panicked' = TRUE
            /\ UNCHANGED <<buf, focus, anchor>>

\* The call written down in op.
Step(name, anchored, result) ==
    \E r \in {result} :
        /\ Apply(r)
        /\ op' = [name |-> name, anchored |-> anchored, br |-> r.br,
                  sel |-> anchor # None]
        /\ ret' = None

Call(name, anchored, r) ==
    Step(name, anchored, r) /\ UNCHANGED <<rt, ses, view>>

\* br tells whether the column was cut back.
Clamp ==
    Call("clamp", FALSE,
         [clamp(Cur) EXCEPT !.br = IF clamp(Cur).focus.col < focus.col
                                   THEN "cut" ELSE "kept"])

CurrSel ==
    /\ ~panicked
    /\ op' = [name |-> "curr_sel", anchored |-> FALSE, br |-> "none",
              sel |-> anchor # None]
    /\ ret' = curr_sel(Cur).val
    /\ panicked' = ~curr_sel(Cur).ok
    /\ UNCHANGED <<buf, focus, anchor, rt, ses, view>>

Backspace == Call("backspace", FALSE, backspace(Cur))

Delete == Call("delete", FALSE, delete(Cur))

MoveRight(anchored) == Call("move_right", anchored, move_right(Cur, anchored))

MoveLeft(anchored) == Call("move_left", anchored, move_left(Cur, anchored))

MoveUp(anchored) == Call("move_up", anchored, move_up(Cur, anchored))

MoveDown(anchored) == Call("move_down", anchored, move_down(Cur, anchored))

MoveToCol(col, anchored) == Call("move_to_col", anchored, move_to_col(Cur, col, anchored))

MoveToLineEnd(anchored) ==
    Call("move_to_line_end", anchored, move_to_line_end(Cur, anchored))

MoveToTop == Call("move_to_top", FALSE, move_to_top(Cur))

MoveToBottom == Call("move_to_bottom", FALSE, move_to_bottom(Cur))

TypeChar(c) ==
    /\ Len(buf) < MaxLen
    /\ Call("type_char", FALSE, type_char(Cur, c))

InsertStr(str) ==
    /\ Len(buf) + Len(str) <= MaxLen
    /\ Call("insert_str", FALSE, insert_str(Cur, str))

\* Editor::default() followed by set_contents: any text, the cursor at the
\* origin, nothing selected.
Init ==
    /\ buf \in SeqsUpTo(Char, MaxLen)
    /\ focus = Cursor(0, 0)
    /\ anchor = None
    /\ panicked = FALSE
    /\ op = [name |-> "new", anchored |-> FALSE, br |-> "none", sel |-> FALSE]
    /\ ret = None
    /\ rt = None
    /\ ses = None
    /\ view = None

Next ==
    \/ Clamp
    \/ CurrSel
    \/ Backspace
    \/ Delete
    \/ \E anchored \in BOOLEAN : MoveRight(anchored)
    \/ \E anchored \in BOOLEAN : MoveLeft(anchored)
    \/ \E anchored \in BOOLEAN : MoveUp(anchored)
    \/ \E anchored \in BOOLEAN : MoveDown(anchored)
    \/ \E col \in 0..MaxCol, anchored \in BOOLEAN : MoveToCol(col, anchored)
    \/ \E anchored \in BOOLEAN : MoveToLineEnd(anchored)
    \/ MoveToTop
    \/ MoveToBottom
    \/ \E c \in Char : TypeChar(c)
    \/ \E str \in Strs : InsertStr(str)

Spec == Init /\ [][Next]_vars

\* ------------------------------------------------------------- properties
\* The buffer as its lines without their terminators.
LineSeq(b) == [i \in 1..len_lines(b) |-> trimmed(line(b, i - 1))]

\* The focus as clamp() leaves it.
Clamped(b, f) == Cursor(f.ln, Min(f.col, Len(LineSeq(b)[f.ln + 1])))

\* Cursor's derived Ord: by line, then by column.
CursorLe(p, q) == p.ln < q.ln \/ (p.ln = q.ln /\ p.col <= q.col)

\* C1: no Editor operation hands the rope an index outside 0..=char_count:
\* no operation panics.
C1_IndicesInRange == ~panicked

\* C2: the focus line is always a line of the buffer, and right after clamp()
\* the focus column is at most the length of the trimmed focus line.
C2_FocusInBuffer ==
    /\ focus.ln < len_lines(buf)
    /\ (op.name = "clamp" => focus.col <= Len(LineSeq(buf)[focus.ln + 1]))

\* clamp() has cut back a column that was beyond the end of a later line.
C2_Witness == op.name = "clamp" /\ op.br = "cut" /\ focus.ln > 0 /\ ~panicked

\* C3: after a move with anchored = FALSE there is no anchor; after a move
\* with anchored = TRUE that puts the focus on the anchor held before it,
\* there is no anchor.
C3_MovesCollapse ==
    [][(op'.name \in MoveNames /\ ~panicked') =>
         /\ (~op'.anchored => anchor' = None)
         /\ (op'.anchored /\ anchor # None /\ focus' = unwrap(anchor)
               => anchor' = None)]_vars

\* An extending move has brought the focus back onto the anchor of a selection.
C3_Witness ==
    /\ op.name \in MoveNames /\ op.anchored /\ op.sel
    /\ op.br \in {"step", "wrap"} /\ anchor = None

\* C4: the anchor never equals the focus, in any reachable state.
C4_NoEmptySelection == anchor # Some(focus)

\* Lines k and k+1 (1-based) of ls made one line.
JoinAt(ls, k) ==
    [i \in 1..(Len(ls) - 1) |->
        IF i < k THEN ls[i] ELSE IF i = k THEN ls[k] \o ls[k + 1] ELSE ls[i + 1]]

\* C5: backspace with no selection and clamped column 0: on line L > 0 it
\* appends line L to line L-1, leaves the other lines alone, and puts the
\* focus at (L-1, old length of line L-1); on line 0 it changes nothing.
C5_BackspaceJoin ==
    [][(op'.name = "backspace" /\ anchor = None /\ Clamped(buf, focus).col = 0) =>
         LET ls == LineSeq(buf)
             L  == focus.ln
         IN  /\ ~panicked'
             /\ anchor' = None
             /\ IF L > 0
                THEN /\ LineSeq(buf') = JoinAt(ls, L)
                     /\ len_lines(buf') = len_lines(buf) - 1
                     /\ focus' = Cursor(L - 1, Len(ls[L]))
                ELSE /\ buf' = buf
                     /\ focus' = Cursor(0, 0)]_vars

\* backspace has joined a non-empty line onto a non-empty line above it.
C5_Witness ==
    /\ op.name = "backspace" /\ op.br = "join" /\ ~op.sel
    /\ focus.col > 0 /\ focus.col < Len(LineSeq(buf)[focus.ln + 1])

\* C6: delete with no selection removes the character at the clamped focus,
\* or joins the next line at the end of a line that has one, or does nothing
\* at the end of the last line; the clamped focus stays.
C6_DeleteForward ==
    [][(op'.name = "delete" /\ anchor = None) =>
         LET ls  == LineSeq(buf)
             f   == Clamped(buf, focus)
             L   == f.ln + 1
             cur == ls[L]
         IN  /\ ~panicked'
             /\ anchor' = None
             /\ focus' = f
             /\ IF f.col < Len(cur)
                THEN LineSeq(buf') =
                       [ls EXCEPT ![L] = SubSeq(cur, 1, f.col)
                                          \o SubSeq(cur, f.col + 2, Len(cur))]
                ELSE IF L < Len(ls)
                THEN LineSeq(buf') = JoinAt(ls, L)
                ELSE buf' = buf]_vars

\* delete at the end of a line has pulled a non-empty next line up.
C6_Witness ==
    /\ op.name = "delete" /\ op.br = "join" /\ ~op.sel
    /\ focus.col < Len(LineSeq(buf)[focus.ln + 1])

\* The character index of a position, its column clamped to its line.
PosIdx(b, p) == line_to_char(b, p.ln) + Min(p.col, Len(LineSeq(b)[p.ln + 1]))

SelLo(b, f, a) == IF CursorLe(Clamped(b, f), a) THEN Clamped(b, f) ELSE a

SelHi(b, f, a) == IF CursorLe(Clamped(b, f), a) THEN a ELSE Clamped(b, f)

\* C7: backspace or delete with a selection removes exactly the characters
\* from min(focus, anchor) to max(focus, anchor), puts the focus at
\* min(focus, anchor) and drops the anchor.
C7_SelectionDelete ==
    [][(op'.name \in {"backspace", "delete"} /\ anchor # None) =>
         LET lo == SelLo(buf, focus, unwrap(anchor))
             hi == SelHi(buf, focus, unwrap(anchor))
         IN  /\ ~panicked'
             /\ buf' = SubSeq(buf, 1, PosIdx(buf, lo))
                         \o SubSeq(buf, PosIdx(buf, hi) + 1, Len(buf))
             /\ focus' = lo
             /\ anchor' = None]_vars

\* C8: type_char(c) with a selection leaves the text before the selection,
\* then c, then the text after it, no anchor, and the focus just past c.
C8_TypeReplaces ==
    [][\A c \in Char :
         (TypeChar(c) /\ anchor # None) =>
            LET lo == SelLo(buf, focus, unwrap(anchor))
                hi == SelHi(buf, focus, unwrap(anchor))
            IN  /\ ~panicked'
                /\ buf' = SubSeq(buf, 1, PosIdx(buf, lo)) \o <<c>>
                            \o SubSeq(buf, PosIdx(buf, hi) + 1, Len(buf))
                /\ anchor' = None
                /\ focus' = IF c = NL THEN Cursor(lo.ln + 1, 0)
                            ELSE Cursor(lo.ln, lo.col + 1)]_vars

\* The last line feed of a string that has one.
LastBreak(s) == CHOOSE i \in Breaks(s) : \A j \in Breaks(s) : j <= i

\* C9: insert_str(s), s holding k >= 1 line feeds, moves the focus down k
\* lines and sets its column to the length of what follows s's last line feed.
C9_InsertStrFocus ==
    [][\A s \in Strs :
         (InsertStr(s) /\ anchor = None /\ Breaks(s) # {}) =>
            /\ ~panicked'
            /\ focus'.ln = focus.ln + Cardinality(Breaks(s))
            /\ focus'.col = Len(s) - LastBreak(s)]_vars

\* ------------------------------------------------- insert/delete round trip
\* The script of C10: on a buffer orig, put the focus at the valid position
\* p, insert_str(s), put the focus back at p, delete once per character of s.
RECURSIVE move_down_n(_, _)
move_down_n(e, n) == IF n = 0 THEN e ELSE move_down_n(move_down(e, FALSE), n - 1)

\* The focus put at p with the Editor's own moves.
GoTo(e, p) == move_to_col(move_down_n(move_to_top(e), p.ln), p.col, FALSE)

ValidPositions(b) ==
    {q \in [ln : 0..(len_lines(b) - 1), col : 0..MaxLen] :
        q.col <= Len(LineSeq(b)[q.ln + 1])}

RtInit ==
    /\ buf \in SeqsUpTo(Char, MaxLen)
    /\ focus = Cursor(0, 0)
    /\ anchor = None
    /\ panicked = FALSE
    /\ op = [name |-> "new", anchored |-> FALSE, br |-> "none", sel |-> FALSE]
    /\ ret = None
    /\ ses = None
    /\ view = None
    /\ \E p \in ValidPositions(buf), s \in Strs :
          rt = [orig |-> buf, p |-> p, s |-> s, pc |-> "place", left |-> Len(s)]

RtPlace ==
    /\ rt.pc = "place"
    /\ Step("goto", FALSE, GoTo(Cur, rt.p))
    /\ rt' = [rt EXCEPT !.pc = "insert"]
    /\ UNCHANGED <<ses, view>>

RtInsert ==
    /\ rt.pc = "insert"
    /\ Step("insert_str", FALSE, insert_str(Cur, rt.s))
    /\ rt' = [rt EXCEPT !.pc = "back"]
    /\ UNCHANGED <<ses, view>>

RtBack ==
    /\ rt.pc = "back"
    /\ Step("goto", FALSE, GoTo(Cur, rt.p))
    /\ rt' = [rt EXCEPT !.pc = IF rt.left = 0 THEN "done" ELSE "delete"]
    /\ UNCHANGED <<ses, view>>

RtDelete ==
    /\ rt.pc = "delete"
    /\ Step("delete", FALSE, delete(Cur))
    /\ rt' = [rt EXCEPT !.left = rt.left - 1,
                        !.pc = IF rt.left = 1 THEN "done" ELSE "delete"]
    /\ UNCHANGED <<ses, view>>

RtNext == RtPlace \/ RtInsert \/ RtBack \/ RtDelete

RtSpec == RtInit /\ [][RtNext]_vars

\* C10: inserting s at a valid position p, moving the focus back to p and
\* deleting forward once per inserted character restores the buffer.
C10_InsertDeleteRoundTrip ==
    /\ ~panicked
    /\ (rt.pc = "done" => buf = rt.orig)

\* A round trip of a two-line string inserted inside a non-empty line is done.
C10_Witness ==
    /\ rt.pc = "done" /\ Len(rt.s) >= 2 /\ Breaks(rt.s) # {}
    /\ rt.p.col > 0 /\ buf = rt.orig /\ op.name = "delete"

\* ------------------------------------------------------- split and rejoin
\* The script of C11: on a buffer orig, put the focus at the valid position
\* p, type a newline, then backspace.
SplitInit ==
    /\ buf \in SeqsUpTo(Char, MaxLen)
    /\ focus = Cursor(0, 0)
    /\ anchor = None
    /\ panicked = FALSE
    /\ op = [name |-> "new", anchored |-> FALSE, br |-> "none", sel |-> FALSE]
    /\ ret = None
    /\ ses = None
    /\ view = None
    /\ \E p \in ValidPositions(buf) :
          rt = [orig |-> buf, p |-> p, s |-> <<NL>>, pc |-> "place", left |-> 1]

SplitPlace ==
    /\ rt.pc = "place"
    /\ Step("goto", FALSE, GoTo(Cur, rt.p))
    /\ rt' = [rt EXCEPT !.pc = "type"]
    /\ UNCHANGED <<ses, view>>

SplitType ==
    /\ rt.pc = "type"
    /\ Step("type_char", FALSE, type_char(Cur, NL))
    /\ rt' = [rt EXCEPT !.pc = "typed"]
    /\ UNCHANGED <<ses, view>>

SplitBackspace ==
    /\ rt.pc = "typed"
    /\ Step("backspace", FALSE, backspace(Cur))
    /\ rt' = [rt EXCEPT !.pc = "done"]
    /\ UNCHANGED <<ses, view>>

SplitNext == SplitPlace \/ SplitType \/ SplitBackspace

SplitSpec == SplitInit /\ [][SplitNext]_vars

\* Line L (0-based) of ls cut in two at column k.
SplitAt(ls, L, k) ==
    [i \in 1..(Len(ls) + 1) |->
        IF i <= L THEN ls[i]
        ELSE IF i = L + 1 THEN SubSeq(ls[L + 1], 1, k)
        ELSE IF i = L + 2 THEN SubSeq(ls[L + 1], k + 1, Len(ls[L + 1]))
        ELSE ls[i - 1]]

\* C11: a newline typed at (L, k), k at most the length of line L, cuts line
\* L into its first k characters and the rest and puts the focus at
\* (L+1, 0); a backspace right after restores the buffer and the focus (L, k).
C11_SplitRejoin ==
    /\ ~panicked
    /\ (rt.pc = "typed" =>
          /\ LineSeq(buf) = SplitAt(LineSeq(rt.orig), rt.p.ln, rt.p.col)
          /\ focus = Cursor(rt.p.ln + 1, 0))
    /\ (rt.pc = "done" => buf = rt.orig /\ focus = rt.p /\ anchor = None)

\* A line below the first was cut inside and made whole again.
C11_Witness ==
    /\ rt.pc = "done" /\ op.name = "backspace" /\ op.br = "join"
    /\ rt.p.ln > 0 /\ rt.p.col > 0
    /\ rt.p.col < Len(LineSeq(rt.orig)[rt.p.ln + 1])
    /\ buf = rt.orig /\ focus = rt.p

\* ------------------------------------------------------------ cursor moves
\* What move_left / move_right make of a focus whose column is col.
LeftOf(b, ln, col) ==
    IF col > 0 THEN Cursor(ln, col - 1)
    ELSE IF ln > 0 THEN Cursor(ln - 1, Len(LineSeq(b)[ln]))
    ELSE Cursor(0, 0)

RightOf(b, ln, col) ==
    IF col < Len(LineSeq(b)[ln + 1]) THEN Cursor(ln, col + 1)
    ELSE IF col = Len(LineSeq(b)[ln + 1]) /\ ln + 1 < len_lines(b) THEN Cursor(ln + 1, 0)
    ELSE IF col = Len(LineSeq(b)[ln + 1]) THEN Cursor(ln, col)
    ELSE Cursor(ln, col + 1)

\* C12 as stated, the column being the focus column as it is: move_left at
\* column 0 goes to the end of the previous line or stays at (0, 0),
\* move_right at the end of a line goes to the start of the next line or
\* stays on the last line, and at any other column either changes the column
\* by exactly one.
C12_WrapRawColumn ==
    [][/\ (op'.name = "move_left" => focus' = LeftOf(buf, focus.ln, focus.col))
       /\ (op'.name = "move_right" => focus' = RightOf(buf, focus.ln, focus.col))]_vars

\* C12, the column being the focus column clamped to the line's length:
\* move_left at column 0 goes to the end of the previous line or stays at
\* (0, 0), move_right at the end of a line goes to the start of the next line
\* or stays on the last line, and otherwise either changes the clamped
\* column by exactly one.
C12_WrapClampedColumn ==
    [][/\ (op'.name = "move_left" =>
             ~panicked' /\ focus' = LeftOf(buf, focus.ln, Clamped(buf, focus).col))
       /\ (op'.name = "move_right" =>
             ~panicked' /\ focus' = RightOf(buf, focus.ln, Clamped(buf, focus).col))]_vars

\* move_left has wrapped to the end of a non-empty line.
C12_Witness ==
    /\ op.name = "move_left" /\ op.br = "wrap" /\ ~panicked
    /\ focus.col > 0 /\ focus.col = Len(LineSeq(buf)[focus.ln + 1])

\* C13: move_up on line 0 keeps the line and sets the column to 0; move_down
\* on the last line keeps the line and sets the column to its length; on any
\* other line they change the line by one and leave the column as it is.
C13_UpDownBoundary ==
    [][/\ (op'.name = "move_up" =>
             /\ ~panicked'
             /\ focus' = IF focus.ln = 0 THEN Cursor(0, 0)
                         ELSE Cursor(focus.ln - 1, focus.col))
       /\ (op'.name = "move_down" =>
             /\ ~panicked'
             /\ focus' = IF focus.ln + 1 = len_lines(buf)
                         THEN Cursor(focus.ln, Len(LineSeq(buf)[focus.ln + 1]))
                         ELSE Cursor(focus.ln + 1, focus.col))]_vars

\* move_down has carried a column onto a line shorter than it.
C13_Witness ==
    /\ op.name = "move_down" /\ op.br = "step" /\ ~panicked
    /\ focus.col > Len(LineSeq(buf)[focus.ln + 1])

\* C14 as stated: an extending move with no anchor sets the anchor to the
\* focus held before the move (and drops it again only if the focus did not
\* move); an extending move with an anchor leaves it where it is until the
\* focus returns to it.
C14_AnchorAtRawFocus ==
    [][(op'.name \in MoveNames /\ op'.anchored /\ ~panicked') =>
         IF anchor = None
         THEN anchor' = Some(focus) \/ (anchor' = None /\ focus' = focus)
         ELSE anchor' = anchor \/ (anchor' = None /\ focus' = unwrap(anchor))]_vars

\* The focus an extending move starts from: move_left and move_right clamp
\* the column first.
MoveStart(name, b, f) ==
    IF name \in {"move_left", "move_right"} THEN Clamped(b, f) ELSE f

\* C14: an extending move with no anchor sets the anchor to the focus the
\* move starts from, which for move_left and move_right is the focus with
\* its column clamped to the line (and drops it again only if the focus ends
\* there); an extending move with an anchor leaves it where it is until the
\* focus returns to it.
C14_AnchorAtMoveStart ==
    [][(op'.name \in MoveNames /\ op'.anchored /\ ~panicked') =>
         IF anchor = None
         THEN \/ anchor' = Some(MoveStart(op'.name, buf, focus))
              \/ (anchor' = None /\ focus' = MoveStart(op'.name, buf, focus))
         ELSE anchor' = anchor \/ (anchor' = None /\ focus' = unwrap(anchor))]_vars

\* An extending move_left has started a selection at the start of a line and
\* wrapped to the line above.
C14_Witness ==
    /\ op.name = "move_left" /\ op.anchored /\ ~op.sel /\ op.br = "wrap"
    /\ anchor = Some(Cursor(focus.ln + 1, 0))

\* C15: curr_sel returns None without an anchor, and otherwise exactly the
\* characters from min(focus, anchor) to max(focus, anchor), line terminators
\* included, whichever of the two comes first.
C15_CurrSelText ==
    op.name = "curr_sel" =>
       /\ ~panicked
       /\ IF anchor = None THEN ret = None
          ELSE LET a  == unwrap(anchor)
                   lo == IF CursorLe(focus, a) THEN focus ELSE a
                   hi == IF CursorLe(focus, a) THEN a ELSE focus
               IN  ret = Some(SubSeq(buf, PosIdx(buf, lo) + 1, PosIdx(buf, hi)))

\* ----------------------------------------------------------- read sessions
\* Editor::read with NormalKeybinding: one event per turn of the loop, until
\* the keybinding returns false; the caller then takes contents().
KeyChars == {"a"}

Events ==
    {KeyEvent(code, "", shift, FALSE, FALSE) :
        code \in {"Down", "Up", "Left", "Right", "Home", "End"}, shift \in BOOLEAN}
    \cup {Key(code) : code \in {"PageDown", "PageUp", "Backspace", "Delete", "Tab",
                                "BackTab", "Esc", "F1", "Resize"}}
    \cup {KeyEvent("Enter", "", FALSE, alt, FALSE) : alt \in BOOLEAN}
    \cup {KeyEvent("Char", c, FALSE, FALSE, FALSE) : c \in KeyChars}
    \cup {KeyEvent("Char", "h", FALSE, FALSE, TRUE)}

\* What a key adds to the session's log: its character, a line feed for Enter.
Typed(event) == IF event.code = "Enter" THEN NL ELSE event.c

\* What the session remembers of the last event: the event if it was Esc,
\* Enter or Tab, and only that it was another one otherwise.
Seen(event) == IF event.code \in {"Esc", "Enter", "Tab"} THEN event ELSE Key("other")

\* One turn of the loop on an event that leaves at most cap characters; log
\* tells whether the key is written down.
Press(event, cap, log) ==
    /\ ses.pc = "read"
    /\ \E r \in {read_event(Cur, event)} :
           /\ Len(r.ed.buf) <= cap
           /\ Apply(r.ed)
           /\ ses' = [ses EXCEPT
                         !.pc = IF r.cont \/ ~r.ed.ok THEN "read" ELSE "done",
                         !.event = Seen(event),
                         !.keys = IF log THEN Append(ses.keys, Typed(event))
                                  ELSE ses.keys]
    /\ UNCHANGED <<op, ret, rt, view>>

ReadKey == \E event \in Events : Press(event, KeyMaxLen, FALSE)

Contents ==
    /\ ~panicked
    /\ ses.pc = "done"
    /\ ses' = [ses EXCEPT !.pc = "returned", !.out = Some(contents(Cur))]
    /\ UNCHANGED <<buf, focus, anchor, panicked, op, ret, rt, view>>

\* Editor::default(): the session starts on an empty buffer.
KeyInit ==
    /\ buf = <<>>
    /\ focus = Cursor(0, 0)
    /\ anchor = None
    /\ panicked = FALSE
    /\ op = [name |-> "new", anchored |-> FALSE, br |-> "none", sel |-> FALSE]
    /\ ret = None
    /\ rt = None
    /\ ses = [pc |-> "read", out |-> None, keys |-> <<>>, event |-> Key("none")]
    /\ view = None

KeyNext == ReadKey \/ Contents

KeySpec == KeyInit /\ [][KeyNext]_vars

\* A typing session: only characters and plain Enter, each written down.
TypeEvents ==
    {KeyEvent("Char", c, FALSE, FALSE, FALSE) : c \in {"a", "b"}} \cup {Key("Enter")}

TypeKey ==
    \E event \in TypeEvents :
        Len(ses.keys) < MaxKeys /\ Press(event, MaxKeys, TRUE)

TypeNext == TypeKey \/ Contents

TypeSpec == KeyInit /\ [][TypeNext]_vars

\* A Tab session: any text of "a"s and line feeds, the focus on any line at
\* any column a line of the text has, then Tab key presses.
TabInit ==
    /\ buf \in SeqsUpTo({"a", NL}, TabLen)
    /\ \E ln \in 0..(len_lines(buf) - 1), col \in 0..TabLen :
          /\ \E i \in 1..len_lines(buf) : col <= Len(LineSeq(buf)[i])
          /\ focus = Cursor(ln, col)
    /\ anchor = None
    /\ panicked = FALSE
    /\ op = [name |-> "new", anchored |-> FALSE, br |-> "none", sel |-> FALSE]
    /\ ret = None
    /\ rt = None
    /\ ses = [pc |-> "read", out |-> None, keys |-> <<>>, event |-> Key("none")]
    /\ view = None

TabKey == Press(Key("Tab"), TabLen + 4, FALSE)

TabSpec == TabInit /\ [][TabKey]_vars

\* C16: the value a finished session returns is the buffer without its last
\* character when that is a line terminator and the whole buffer otherwise;
\* a session that ends on an empty buffer returns the empty string.
C16_ContentsTrimsOne ==
    ses.pc = "returned" =>
       /\ unwrap(ses.out) = IF Len(buf) > 0 /\ buf[Len(buf)] = NL
                            THEN SubSeq(buf, 1, Len(buf) - 1)
                            ELSE buf
       /\ (buf = <<>> => unwrap(ses.out) = <<>>)

\* A session ended by Escape on a buffer ending in two line terminators
\* has returned it with one of them.
C16_Witness ==
    /\ ses.pc = "returned" /\ ses.event.code = "Esc"
    /\ Len(buf) >= 2 /\ buf[Len(buf)] = NL /\ buf[Len(buf) - 1] = NL
    /\ Len(unwrap(ses.out)) = Len(buf) - 1

\* C17: in a session of typed characters and plain Enter from an empty
\* buffer, the session goes on while every Enter followed a non-empty line,
\* the Enter on the empty last line ends it, and the result is the typed
\* lines joined by single line feeds with no trailing one.
C17_TypedLinesReturned ==
    LET h     == ses.keys
        ended == /\ Len(h) > 0 /\ h[Len(h)] = NL
                 /\ (Len(h) = 1 \/ h[Len(h) - 1] = NL)
    IN  /\ ~panicked
        /\ (ses.pc = "read" <=> ~ended)
        /\ (ses.pc = "read" => buf = h /\ anchor = None)
        /\ (ses.pc = "returned" => unwrap(ses.out) = SubSeq(h, 1, Len(h) - 2))

\* Two non-empty lines were typed, and the session has returned them.
C17_Witness ==
    /\ ses.pc = "returned"
    /\ Cardinality(Breaks(unwrap(ses.out))) = 1
    /\ unwrap(ses.out)[1] # NL
    /\ unwrap(ses.out)[Len(unwrap(ses.out))] # NL
    /\ Len(ses.keys) = Len(unwrap(ses.out)) + 2

\* The focus is on the last line and that line is empty.
OnEmptyLastLine == focus.ln + 1 = len_lines(buf) /\ Len(LineSeq(buf)[focus.ln + 1]) = 0

\* The key ended the loop and left buffer and cursor alone.
Stopped == ses'.pc = "done" /\ ~panicked' /\ UNCHANGED <<buf, focus, anchor>>

\* The key went through type_char with a line feed at the clamped focus, and
\* the loop goes on.
NewlineAtFocus ==
    /\ ses'.pc = "read" /\ ~panicked'
    /\ buf' = insert(buf, PosIdx(buf, focus), <<NL>>)
    /\ focus' = Cursor(focus.ln + 1, 0)

C19_TabToNextStop ==
    [][(ses.pc = "read" /\ ses'.event.code = "Tab") =>
         LET k == Clamped(buf, focus).col
             n == 4 - (k % 4)
             z == PosIdx(buf, focus)
         IN  /\ ~panicked'
             /\ n \in 1..4
             /\ buf' = SubSeq(buf, 1, z) \o [i \in 1..n |-> Space]
                         \o SubSeq(buf, z + 1, Len(buf))
             /\ focus' = Cursor(focus.ln, k + n)
             /\ focus'.col % 4 = 0
             /\ focus'.col > k
             /\ focus'.col - 4 <= k
             /\ SubSeq(buf', PosIdx(buf', focus') + 1, Len(buf'))
                  = SubSeq(buf, z + 1, Len(buf))]_vars

\* Tab inside a line, past its first tab stop: the focus went on to column 8
\* and text follows it.
C19_Witness ==
    /\ ses.event.code = "Tab" /\ ~panicked /\ focus.col = 8
    /\ focus.col < Len(LineSeq(buf)[focus.ln + 1])
    /\ LineSeq(buf)[focus.ln + 1][focus.col] = Space
    /\ LineSeq(buf)[focus.ln + 1][focus.col + 1] = "a"

\* ------------------------------------------------------- viewport planner
\* src/src/renderer/full.rs.  The rows reserved for header and footer.
RESERVED_ROWS == 2

\* usize has 64 bits; the model keeps 30 of them, more than any row or
\* line count it builds, so that a wrapped difference is as out of reach.
Word == 2 ^ 30

\* term_rows - RESERVED_ROWS on usize: below zero a debug build panics and a
\* release build wraps.  The set of outcomes: None is the panic.
usize_sub(a, b) == IF a >= b THEN {Some(a - b)} ELSE {None, Some(a - b + Word)}

\* The range for data_rows lines, the cursor on line ln, term_rows to draw in.
draw_range_even(data_rows, ln, term_rows) ==
    IF data_rows > term_rows
    THEN IF ln + (term_rows \div 2) >= data_rows THEN <<data_rows - term_rows, data_rows>>
         ELSE IF (term_rows \div 2) > ln THEN <<0, term_rows>>
         ELSE <<ln - (term_rows \div 2), ln + (term_rows \div 2)>>
    ELSE <<0, data_rows>>

draw_range_wide(data_rows, ln, term_rows) ==
    IF data_rows > term_rows
    THEN IF ln + (term_rows \div 2) >= data_rows THEN <<data_rows - term_rows, data_rows>>
         ELSE IF (term_rows \div 2) > ln THEN <<0, term_rows>>
         ELSE <<ln - (term_rows \div 2), ln + (term_rows \div 2) + 1>>
    ELSE <<0, data_rows>>

draw_range(data_rows, ln, term_rows) ==
    IF data_rows > term_rows
    THEN IF ln + (term_rows \div 2) >= data_rows THEN <<data_rows - term_rows, data_rows>>
         ELSE IF (term_rows \div 2) > ln THEN <<0, term_rows>>
         ELSE <<ln - (term_rows \div 2), ln + (term_rows \div 2) + (term_rows % 2)>>
    ELSE <<0, data_rows>>

\* CrosstermRenderer::calculate_draw_range on the editor e, size the result
\* of crossterm::terminal::size(): None for Err, Some(rows) for Ok.  The set
\* of outcomes: None is a panic, Some(range) a return.
calculate_draw_range(e, size) ==
    IF size = None THEN {Some(<<0, line_count(e)>>)}
    ELSE {IF t = None THEN None
          ELSE Some(draw_range(line_count(e), e.focus.ln, unwrap(t))) :
             t \in usize_sub(unwrap(size), RESERVED_ROWS)}

\* A buffer of up to MaxLines lines, the cursor on any of them, a terminal of
\* up to MaxRows rows or none to ask.
ViewInit ==
    /\ \E n \in 1..MaxLines : buf = [i \in 1..(n - 1) |-> NL]
    /\ \E c \in 0..(len_lines(buf) - 1) : focus = Cursor(c, 0)
    /\ anchor = None
    /\ panicked = FALSE
    /\ op = [name |-> "new", anchored |-> FALSE, br |-> "none", sel |-> FALSE]
    /\ ret = None
    /\ rt = None
    /\ ses = None
    /\ \E size \in {None} \cup {Some(rows) : rows \in 0..MaxRows} :
          view = [size |-> size, range |-> None, pc |-> "plan"]

Plan ==
    /\ view.pc = "plan"
    /\ \E o \in calculate_draw_range(Cur, view.size) :
          /\ panicked' = (o = None)
          /\ view' = [view EXCEPT !.range = o, !.pc = "planned"]
    /\ op' = [op EXCEPT !.name = "calculate_draw_range"]
    /\ UNCHANGED <<buf, focus, anchor, ret, rt, ses>>

ViewSpec == ViewInit /\ [][Plan]_vars

\* The planner's inputs as the claim names them: N lines, the cursor on line
\* c, T rows left of the terminal's (defined when the terminal has at least
\* the reserved ones).
HasBudget == view.size # None /\ unwrap(view.size) >= RESERVED_ROWS

Budget == unwrap(view.size) - RESERVED_ROWS

Contained ==
    /\ ~panicked
    /\ unwrap(view.range)[1] <= focus.ln
    /\ focus.ln < unwrap(view.range)[2]
    /\ unwrap(view.range)[2] - unwrap(view.range)[1] = Budget

\* C20 as stated: for every N, c < N and T < N the planned range (low, high)
\* has low <= c < high and high - low = T.
C20_ViewportContains ==
    (view.pc = "planned" /\ HasBudget /\ Budget < len_lines(buf)) => Contained

\* C20: for every N, c < N and T with 1 <= T < N the planned range
\* (low, high) has low <= c < high and high - low = T.
C20_ViewportContainsFromOneRow ==
    (view.pc = "planned" /\ HasBudget /\ 1 <= Budget /\ Budget < len_lines(buf))
        => Contained

\* An odd number of rows around a cursor in the middle of a longer buffer.
C20_Witness ==
    /\ view.pc = "planned" /\ HasBudget /\ Budget % 2 = 1 /\ Budget >= 3
    /\ Budget < len_lines(buf) /\ ~panicked
    /\ unwrap(view.range)[1] > 0 /\ unwrap(view.range)[2] < len_lines(buf)

\* C22: for every line count N, cursor line and row budget T the planned range
\* (low, high) has 0 <= low <= high <= N and high - low <= T, and it is (0, N)
\* when N <= T or when the terminal's size cannot be queried.
C22_PlannerRangeFits ==
    (view.pc = "planned" /\ ~panicked) =>
        /\ HasBudget =>
              /\ 0 <= unwrap(view.range)[1]
              /\ unwrap(view.range)[1] <= unwrap(view.range)[2]
              /\ unwrap(view.range)[2] <= len_lines(buf)
              /\ unwrap(view.range)[2] - unwrap(view.range)[1] <= Budget
              /\ len_lines(buf) <= Budget => unwrap(view.range) = <<0, len_lines(buf)>>
        /\ view.size = None => unwrap(view.range) = <<0, len_lines(buf)>>

\* An even number of rows around a cursor in the middle of a longer buffer:
\* the range is cut on both sides and takes the whole budget.
C22_Witness ==
    /\ view.pc = "planned" /\ HasBudget /\ ~panicked
    /\ Budget % 2 = 0 /\ Budget >= 2 /\ Budget < len_lines(buf)
    /\ unwrap(view.range)[1] > 0 /\ unwrap(view.range)[2] < len_lines(buf)
    /\ unwrap(view.range)[2] - unwrap(view.range)[1] = Budget

\* ------------------------------------------------------ frame after frame
\* CrosstermRenderer::draw asks the planner again on every frame: the range
\* of the frame before is not among calculate_draw_range's inputs.
Replan ==
    /\ view.pc = "planned" /\ ~panicked
    /\ \E o \in calculate_draw_range(Cur, view.size) :
          /\ panicked' = (o = None)
          /\ view' = [view EXCEPT !.range = o]
    /\ op' = [op EXCEPT !.name = "calculate_draw_range"]
    /\ UNCHANGED <<buf, focus, anchor, ret, rt, ses>>

ScrollNext == Plan \/ Replan \/ MoveUp(FALSE) \/ MoveDown(FALSE)

ScrollSpec == ViewInit /\ [][ScrollNext]_vars

\* C21 as stated: when the cursor line is still inside the range drawn before
\* and the buffer has more lines than the row budget, the range planned for
\* the next frame is the range drawn before.
C21_ViewportStable ==
    [][(/\ view.pc = "planned" /\ ~panicked /\ ~panicked'
        /\ HasBudget /\ len_lines(buf) > Budget
        /\ unwrap(view.range)[1] <= focus'.ln
        /\ focus'.ln < unwrap(view.range)[2])
           => view'.range = view.range]_vars

\* ------------------------------------------- renderers (src/src/renderer.rs)
\* FullRenderer and LazyRenderer draw a MultilineTerm: its lines, a Vec of
\* Strings that is empty until the first character is typed, and its cursor.

\* Most lines of a model handed to a renderer.
MaxBufs == 2
\* Longest line of such a model.
MaxText == 1
\* Rows of the terminal the replay keeps the text of.
ScreenRows == 3

Texts == SeqsUpTo({"a"}, MaxText)

\* crate::Cursor of the Vec<String> model: line and index, both 0-based.
LineIndex(l, index) == [line |-> l, index |-> index]

MultilineTerm(buffers, cursor) == [buffers |-> buffers, cursor |-> cursor]

current_line_len(term) ==
    IF term.buffers = <<>> THEN 0 ELSE Len(term.buffers[term.cursor.line + 1])

\* The models read_multiline can hold: no line and the cursor at (0, 0), or
\* the cursor on a line, its index possibly beyond that line's end (vertical
\* moves keep the index).
Terms ==
    {MultilineTerm(<<>>, LineIndex(0, 0))} \cup
    UNION {{MultilineTerm(b, LineIndex(l, i)) : l \in 0..(Len(b) - 1), i \in 0..MaxText} :
              b \in SeqsUpTo(Texts, MaxBufs) \ {<<>>}}

\* The models an edit can lead to: a line, once allocated, is never the last
\* one removed before the session ends.
Edits(term) == {u \in Terms : term.buffers # <<>> => u.buffers # <<>>}

\* u16 arithmetic: out of range a debug build panics, a release build wraps.
U16 == 2 ^ 16

wrap_u16(x) == IF x < 0 THEN x + U16 ELSE x % U16

\* A terminal command as crossterm queues it.
Cmd(kind, n, s) == [cmd |-> kind, n |-> n, s |-> s]

\* The renderer between two steps of a call: pds and pbuf are its fields,
\* out the commands queued so far, ok whether it has not panicked, build the
\* profile it was compiled with.
Renderer(pds, pbuf, build) ==
    [pds |-> pds, pbuf |-> pbuf, out |-> <<>>, ok |-> TRUE, build |-> build]

PreviousDrawState(height, cursor) == [height |-> height, cursor |-> cursor]

queue(r, c) == [r EXCEPT !.out = Append(@, c)]

\* The u16 result x of an addition or subtraction.
arith(r, x) == [r EXCEPT !.ok = @ /\ (r.build = "release" \/ (0 <= x /\ x < U16))]

move_cursor_up_unrecorded(r, n) ==
    IF n = 0 THEN r ELSE queue(r, Cmd("MoveUp", n, <<>>))

move_cursor_up(r, n) ==
    IF n = 0 THEN r
    ELSE [arith(queue(r, Cmd("MoveUp", n, <<>>)), r.pds.cursor.line - n)
             EXCEPT !.pds.cursor.line = wrap_u16(r.pds.cursor.line - n)]

move_cursor_down(r, n) ==
    IF n = 0 THEN r
    ELSE [arith(queue(r, Cmd("MoveDown", n, <<>>)), r.pds.cursor.line + n)
             EXCEPT !.pds.cursor.line = wrap_u16(r.pds.cursor.line + n)]

move_cursor_left(r, n) ==
    IF n = 0 THEN r
    ELSE [arith(queue(r, Cmd("MoveLeft", n, <<>>)), r.pds.cursor.index - n)
             EXCEPT !.pds.cursor.index = wrap_u16(r.pds.cursor.index - n)]

move_cursor_right(r, n) ==
    IF n = 0 THEN r
    ELSE [arith(queue(r, Cmd("MoveRight", n, <<>>)), r.pds.cursor.index + n)
             EXCEPT !.pds.cursor.index = wrap_u16(r.pds.cursor.index + n)]

\* MoveTo(0, row) or, without a position, MoveLeft(u16::MAX): column 0 of the
\* row the terminal's cursor is on.
cursor_to_lmargin(r) == queue(r, Cmd("ToLeftMargin", 0, <<>>))

write_str(r, s) == queue(r, Cmd("Output", 0, s))

write_line(r, s) == queue(queue(r, Cmd("Output", 0, s)), Cmd("Output", 0, <<NL>>))

new_line(r) == write_line(r, <<>>)

move_cursor_to_line(r, l) ==
    IF r.pds.cursor.line > l THEN move_cursor_up(r, r.pds.cursor.line - l)
    ELSE IF r.pds.cursor.line < l THEN move_cursor_down(r, l - r.pds.cursor.line)
    ELSE r

move_cursor_to_index(r, index) ==
    IF index < r.pds.cursor.index THEN move_cursor_left(r, r.pds.cursor.index - index)
    ELSE IF index > r.pds.cursor.index THEN move_cursor_right(r, index - r.pds.cursor.index)
    ELSE r

move_cursor_to_bottom(r) ==
    move_cursor_down(arith(r, r.pds.height - r.pds.cursor.line - 1),
                     wrap_u16(r.pds.height - r.pds.cursor.line - 1))

draw_cursor_raw_index(r, term) ==
    move_cursor_to_index(move_cursor_to_line(r, term.cursor.line), term.cursor.index)

draw_cursor(r, term) ==
    move_cursor_to_index(move_cursor_to_line(r, term.cursor.line),
                         Min(term.cursor.index, current_line_len(term)))

\* FullRenderer::default() has no gutter: a line is its text.
draw_line(r, term, l) == write_str(cursor_to_lmargin(r), term.buffers[l + 1])

full_clear_line(r) ==
    [cursor_to_lmargin(queue(r, Cmd("Clear", 0, <<"CurrentLine">>)))
        EXCEPT !.pds.cursor.index = 0]

flush(r) == queue(r, Cmd("Flush", 0, <<>>))

\* The loop of FullRenderer::draw from line i on: each line, and a new line
\* after each but the last.
RECURSIVE draw_lines(_, _, _)
draw_lines(r, term, i) ==
    IF i >= Len(term.buffers) THEN r
    ELSE draw_lines(IF i < Len(term.buffers) - 1
                    THEN new_line(draw_line(r, term, i))
                    ELSE draw_line(r, term, i),
                    term, i + 1)

full_draw(r, term) ==
    IF term.buffers = <<>> THEN [r EXCEPT !.pds.height = 1]
    ELSE flush(draw_cursor(
            [draw_lines(r, term, 0) EXCEPT
                !.pds = PreviousDrawState(
                            Len(term.buffers),
                            LineIndex(Len(term.buffers) - 1,
                                      Len(term.buffers[Len(term.buffers)])))],
            term))

full_clear_draw(r) ==
    LET a == full_clear_line(move_cursor_to_bottom(r))
        b == move_cursor_up(arith(a, a.pds.height - 1), wrap_u16(a.pds.height - 1))
    IN  [queue(b, Cmd("Clear", 0, <<"FromCursorDown">>))
            EXCEPT !.pds = PreviousDrawState(0, LineIndex(0, 0))]

lazy_draw(r, term) ==
    flush([full_draw(r, term) EXCEPT
              !.pbuf = IF term.buffers = <<>> THEN <<<<>>>> ELSE term.buffers])

lazy_clear_draw(r) == full_clear_draw([r EXCEPT !.pbuf = <<>>])

Diff(kind, l) == [kind |-> kind, line |-> l]

find_diff(r, term) ==
    IF Len(r.pbuf) # Len(term.buffers) THEN Diff("RedrawAll", 0)
    ELSE LET changed == {i \in 0..(Len(r.pbuf) - 1) : r.pbuf[i + 1] # term.buffers[i + 1]}
         IN  IF changed = {}
             THEN IF r.pds.cursor # term.cursor
                  THEN Diff("RedrawCursor", 0) ELSE Diff("NoChange", 0)
             ELSE IF Cardinality(changed) = 1
                  THEN Diff("RedrawLine", CHOOSE i \in changed : TRUE)
                  ELSE Diff("RedrawAll", 0)

redraw_line_no_clear(r, term, l) ==
    draw_cursor(
        [draw_line(move_cursor_to_line(r, l), term, l) EXCEPT
            !.pds.cursor.index = Len(term.buffers[l + 1]),
            !.pbuf[l + 1] = term.buffers[l + 1]],
        term)

redraw_line(r, term, l) ==
    draw_cursor(
        [draw_line(full_clear_line(move_cursor_to_line(r, l)), term, l) EXCEPT
            !.pds.cursor.index = Len(term.buffers[l + 1]),
            !.pbuf[l + 1] = term.buffers[l + 1]],
        term)

lazy_redraw(r, term) ==
    LET d == find_diff(r, term)
    IN  CASE d.kind = "NoChange" -> r
          [] d.kind = "RedrawCursor" -> flush(draw_cursor(r, term))
          [] d.kind = "RedrawLine" -> flush(redraw_line(r, term, d.line))
          [] d.kind = "RedrawAll" -> lazy_draw(lazy_clear_draw(r), term)

\* ---------------------------------------------------------- the terminal
\* What the queued commands do to a terminal in raw mode: its cursor, and
\* the text of rows 0 .. ScreenRows - 1.  Row 0 is the row the cursor was
\* on before the first command.
Terminal(row, col, screen) == [row |-> row, col |-> col, screen |-> screen]

blank(rows) == [y \in 0..(rows - 1) |-> <<>>]

\* Row text w with s written from column c on.
overwrite(w, c, s) ==
    [x \in 1..Max(Len(w), c + Len(s)) |->
        IF x <= c THEN (IF x <= Len(w) THEN w[x] ELSE Space)
        ELSE IF x <= c + Len(s) THEN s[x - c]
        ELSE w[x]]

exec(t, c) ==
    CASE c.cmd = "MoveUp" -> [t EXCEPT !.row = @ - c.n]
      [] c.cmd = "MoveDown" -> [t EXCEPT !.row = @ + c.n]
      [] c.cmd = "MoveLeft" -> [t EXCEPT !.col = @ - c.n]
      [] c.cmd = "MoveRight" -> [t EXCEPT !.col = @ + c.n]
      [] c.cmd = "ToLeftMargin" -> [t EXCEPT !.col = 0]
      [] c.cmd = "MoveToColumn" -> [t EXCEPT !.col = Max(c.n, 1) - 1]
      [] c.cmd = "Output" /\ c.s = <<NL>> -> [t EXCEPT !.row = @ + 1]
      [] c.cmd = "Output" /\ c.s # <<NL>> ->
            [t EXCEPT !.col = @ + Len(c.s),
                      !.screen = [y \in DOMAIN @ |->
                                     IF y = t.row /\ c.s # <<>>
                                     THEN overwrite(@[y], t.col, c.s) ELSE @[y]]]
      [] c.cmd = "Clear" /\ c.s = <<"CurrentLine">> ->
            [t EXCEPT !.screen = [y \in DOMAIN @ |-> IF y = t.row THEN <<>> ELSE @[y]]]
      [] c.cmd = "Clear" /\ c.s = <<"FromCursorDown">> ->
            [t EXCEPT !.screen =
                [y \in DOMAIN @ |->
                    IF y > t.row THEN <<>>
                    ELSE IF y = t.row THEN SubSeq(@[y], 1, Min(Max(t.col, 0), Len(@[y])))
                    ELSE @[y]]]
      [] c.cmd = "Clear" /\ c.s = <<"UntilNewLine">> ->
            [t EXCEPT !.screen =
                [y \in DOMAIN @ |->
                    IF y = t.row THEN SubSeq(@[y], 1, Min(Max(t.col, 0), Len(@[y])))
                    ELSE @[y]]]
      [] c.cmd = "Flush" -> t

RECURSIVE replay(_, _)
replay(t, cmds) ==
    IF cmds = <<>> THEN t ELSE replay(exec(t, Head(cmds)), Tail(cmds))

\* ------------------------------------------------ a renderer at work
\* view holds the LazyRenderer and what it draws on: term the model of the
\* last call, pds and pbuf the renderer's fields, build its profile, out the
\* commands the last call queued, t the terminal after them, top the row the
\* frame starts on, call and diff the last call and its classification.
Rend == Renderer(view.pds, view.pbuf, view.build)

DrawInit ==
    /\ buf = <<>>
    /\ focus = Cursor(0, 0)
    /\ anchor = None
    /\ panicked = FALSE
    /\ op = [name |-> "new", anchored |-> FALSE, br |-> "none", sel |-> FALSE]
    /\ ret = None
    /\ rt = None
    /\ ses = None
    /\ \E u \in Terms, build \in {"debug", "release"} :
          view = [term |-> u,
                  pds |-> PreviousDrawState(0, LineIndex(0, 0)),
                  pbuf |-> <<>>,
                  build |-> build,
                  out |-> <<>>,
                  t |-> Terminal(0, 0, blank(ScreenRows)),
                  top |-> 0,
                  call |-> "new",
                  diff |-> "none"]

\* The call name(term) returned as r (or panicked), its frame from row top.
Shown(name, term, r, top, diff) ==
    /\ panicked' = ~r.ok
    /\ view' = [view EXCEPT !.term = term, !.pds = r.pds, !.pbuf = r.pbuf,
                            !.out = r.out, !.t = replay(view.t, r.out),
                            !.top = top, !.call = name, !.diff = diff]
    /\ UNCHANGED <<buf, focus, anchor, op, ret, rt, ses>>

\* The frame of term from row on is on the rows the terminal keeps.
Fits(row, term) == 0 <= row /\ row + Max(1, Len(term.buffers)) <= ScreenRows

LazyDraw ==
    /\ ~panicked
    /\ \E u \in Edits(view.term) :
          /\ Fits(view.t.row, u)
          /\ \E r \in {lazy_draw(Rend, u)} : Shown("draw", u, r, view.t.row, "none")

LazyRedraw ==
    /\ ~panicked
    /\ \E u \in Edits(view.term) :
          \E d \in {find_diff(Rend, u).kind} :
             \E top \in {IF d = "RedrawAll"
                         THEN replay(view.t, lazy_clear_draw(Rend).out).row
                         ELSE view.top} :
                /\ d = "RedrawAll" => Fits(top, u)
                /\ \E r \in {lazy_redraw(Rend, u)} : Shown("redraw", u, r, top, d)

LazyClearDraw ==
    /\ ~panicked
    /\ \E r \in {lazy_clear_draw(Rend)} :
          Shown("clear_draw", view.term, r, view.top, "none")

DrawNext == LazyDraw \/ LazyRedraw \/ LazyClearDraw

DrawSpec == DrawInit /\ [][DrawNext]_vars

\* The recorded terminal cursor is the terminal's, counted from the frame's
\* first row and the left margin.
Tracked ==
    /\ view.t.row - view.top = view.pds.cursor.line
    /\ view.t.col = view.pds.cursor.index

\* What a call queued besides flushes: moves, clears and writes.
Emitted(out) == SelectSeq(out, LAMBDA c : c.cmd # "Flush")

\* A redraw of the model the frame before it was drawn from.
RedrawOfSame ==
    /\ view.call \in {"draw", "redraw"} /\ ~panicked
    /\ view'.call = "redraw" /\ ~panicked'
    /\ view'.term = view.term

\* C23 as stated: a redraw of a model whose lines and cursor are those of the
\* previous frame queues no move, clear or write and leaves the Draw State
\* and the snapshot as they were, whatever the model.
C23_UnchangedIsNoChange ==
    [][RedrawOfSame =>
          /\ Emitted(view'.out) = <<>>
          /\ view'.pds = view.pds
          /\ view'.pbuf = view.pbuf]_vars

Moves == {"MoveUp", "MoveDown", "MoveLeft", "MoveRight"}

\* A redraw of the lines the frame before it was drawn from, the cursor
\* elsewhere.
RedrawOfMovedCursor ==
    /\ view.call \in {"draw", "redraw"} /\ ~panicked
    /\ view'.call = "redraw" /\ ~panicked'
    /\ view'.term.buffers = view.term.buffers
    /\ view.pbuf = view'.term.buffers
    /\ view'.term.cursor # view.term.cursor

\* C24: when every line equals its snapshot and only the document cursor
\* changed, redraw queues relative cursor moves only, and the recorded
\* terminal cursor ends on the document cursor's line at column
\* min(document column, length of that line).
C24_CursorOnlyMoves ==
    [][RedrawOfMovedCursor =>
          /\ \A i \in 1..Len(Emitted(view'.out)) : Emitted(view'.out)[i].cmd \in Moves
          /\ view'.pds.cursor =
                LineIndex(view'.term.cursor.line,
                          Min(view'.term.cursor.index, current_line_len(view'.term)))]_vars

\* The cursor went up and left, to an index beyond the end of its new line.
C24_Witness ==
    /\ view.call = "redraw" /\ view.diff = "RedrawCursor" /\ ~panicked
    /\ \E i \in 1..Len(view.out) : view.out[i].cmd = "MoveUp"
    /\ \E i \in 1..Len(view.out) : view.out[i].cmd = "MoveLeft"
    /\ view.term.cursor.index > current_line_len(view.term)
    /\ view.pds.cursor.index = current_line_len(view.term)

\* The lines of the model handed to the call that differ from the snapshot
\* the call found.
Differing ==
    {l \in 0..(Len(view.pbuf) - 1) : view.pbuf[l + 1] # view'.term.buffers[l + 1]}

\* A redraw of as many lines as the snapshot has, one of them changed.
RedrawOfOneLine ==
    /\ view.call \in {"draw", "redraw"} /\ ~panicked
    /\ view'.call = "redraw" /\ ~panicked'
    /\ Len(view'.term.buffers) = Len(view.pbuf)
    /\ Cardinality(Differing) = 1

VisibleRange(term, rows) == draw_range(Max(1, Len(term.buffers)), term.cursor.line, rows)

\* Between the frame before and the model handed to the call the visible
\* range moved, for some terminal.
Scrolled ==
    \E rows \in 1..MaxBufs :
        VisibleRange(view'.term, rows) # VisibleRange(view.term, rows)

FullRedraw ==
    /\ view'.diff = "RedrawAll"
    /\ \A l \in 0..(Len(view'.term.buffers) - 1) :
          view'.t.screen[view'.top + l] = view'.term.buffers[l + 1]
    /\ view'.pbuf = (IF view'.term.buffers = <<>> THEN <<<<>>>> ELSE view'.term.buffers)

\* C26 as stated: redraw is a full redraw whenever the number of lines
\* changed, more than one line differs from the snapshot, or the visible
\* range differs from the range drawn before, even with every line's text
\* unchanged.
C26_FullRedrawOnScroll ==
    [][(/\ view.call \in {"draw", "redraw"} /\ ~panicked
        /\ view'.call = "redraw" /\ ~panicked'
        /\ \/ Len(view'.term.buffers) # Len(view.pbuf)
           \/ Cardinality(Differing) > 1
           \/ Scrolled)
           => FullRedraw]_vars

\* The lines a call wrote: draw_line's writes, each the one after a move to
\* the left margin.
RECURSIVE drawn_from(_, _)
drawn_from(out, i) ==
    IF i > Len(out) THEN <<>>
    ELSE (IF out[i].cmd = "Output" /\ out[i - 1].cmd = "ToLeftMargin"
          THEN <<out[i].s>> ELSE <<>>) \o drawn_from(out, i + 1)

DrawnLines(out) == drawn_from(out, 2)

\* The last call drew a whole frame and returned.
FullyDrawn ==
    /\ ~panicked
    /\ view.call = "draw" \/ (view.call = "redraw" /\ view.diff = "RedrawAll")

\* The Draw State is the frame of the lines drawn and of the model's cursor.
DescribesFrame ==
    /\ view.pds.height = Len(DrawnLines(view.out))
    /\ view.pds.cursor =
          LineIndex(view.term.cursor.line,
                    Min(view.term.cursor.index, current_line_len(view.term)))
    /\ view.pbuf = DrawnLines(view.out)

\* C27 as stated: after a full draw the recorded height is the number of rows
\* written, the recorded terminal cursor is on the document cursor's line at
\* column min(document column, length of that line), and the snapshot is the
\* lines drawn.
C27_DrawStateIsNewFrame == FullyDrawn => DescribesFrame

\* The LazyRenderer's half of cursor tracking: after any sequence of draw,
\* redraw and clear_draw calls with edits of the model in between, the
\* recorded terminal cursor is the terminal's cursor as the replay of every
\* queued command leaves it, counted from the frame's first row and the left
\* margin.  It holds under DrawSpec.
LazyCursorTracked == ~panicked => Tracked

\* A single line was redrawn above the cursor's line on a frame that does
\* not start on the terminal's first row: moves up and down, a clear, a
\* write and a move left were replayed.
LazyCursorMoved ==
    /\ view.call = "redraw" /\ view.diff = "RedrawLine" /\ ~panicked
    /\ view.top > 0
    /\ view.t.row = view.top + 1
    /\ \E i \in 1..Len(view.out) : view.out[i].cmd = "MoveUp"
    /\ \E i \in 1..Len(view.out) : view.out[i].cmd = "MoveDown"
    /\ \E i \in 1..Len(view.out) : view.out[i].cmd = "MoveLeft"
    /\ \E i \in 1..Len(view.out) : view.out[i].cmd = "Output" /\ view.out[i].s # <<>>

\* ------------------------------ CrosstermRenderer (src/src/renderer/full.rs)
\* The renderer of the rope editor: a header row, the planned range of
\* lines, each after a margin, and a footer row.
GUTTER == 5
MARGIN == 3
TOTAL_MARGIN == GUTTER + MARGIN

\* What the header, a margin and the footer put on their rows, by length:
\* one cell stands for the header's text and for the footer's.
Header == <<"h">>
Margin == [x \in 1..TOTAL_MARGIN |-> "|"]
Footer == <<"f">>

DrawState(line_start, height, cursor) ==
    [line_start |-> line_start, height |-> height, cursor |-> cursor]

\* under tells whether a usize subtraction of the call went below zero, which
\* panics a debug build and wraps in a release build.
CrosstermRenderer(ds, build) ==
    [ds |-> ds, out |-> <<>>, ok |-> TRUE, build |-> build, under |-> FALSE]

queue_all(r, cmds) == [r EXCEPT !.out = @ \o cmds]

\* usize arithmetic, as u16 above.
wrap_usize(x) == IF x < 0 THEN x + Word ELSE x % Word

arith_usize(c, x) ==
    [c EXCEPT !.ok = @ /\ (c.build = "release" \/ (0 <= x /\ x < Word)),
              !.under = @ \/ x < 0]

usize_to_u16(n) == Min(n, U16 - 1)

ct_move_cursor_up(c, n) ==
    IF n = 0 THEN c
    ELSE [arith_usize(queue(c, Cmd("MoveUp", usize_to_u16(n), <<>>)), c.ds.cursor.ln - n)
             EXCEPT !.ds.cursor.ln = wrap_usize(c.ds.cursor.ln - n)]

ct_move_cursor_down(c, n) ==
    IF n = 0 THEN c
    ELSE [arith_usize(queue(c, Cmd("MoveDown", usize_to_u16(n), <<>>)), c.ds.cursor.ln + n)
             EXCEPT !.ds.cursor.ln = wrap_usize(c.ds.cursor.ln + n)]

ct_move_cursor_left(c, n) ==
    IF n = 0 THEN c
    ELSE [arith_usize(queue(c, Cmd("MoveLeft", usize_to_u16(n), <<>>)), c.ds.cursor.col - n)
             EXCEPT !.ds.cursor.col = wrap_usize(c.ds.cursor.col - n)]

ct_move_cursor_right(c, n) ==
    IF n = 0 THEN c
    ELSE [arith_usize(queue(c, Cmd("MoveRight", usize_to_u16(n), <<>>)), c.ds.cursor.col + n)
             EXCEPT !.ds.cursor.col = wrap_usize(c.ds.cursor.col + n)]

ct_move_cursor_to_line(c, l) ==
    LET a == arith_usize(c, c.ds.cursor.ln + c.ds.line_start)
        pds_line == wrap_usize(c.ds.cursor.ln + c.ds.line_start)
    IN  IF pds_line > l THEN ct_move_cursor_up(a, pds_line - l)
        ELSE IF pds_line < l THEN ct_move_cursor_down(a, l - pds_line)
        ELSE a

ct_move_cursor_to_index(c, index) ==
    IF index < c.ds.cursor.col THEN ct_move_cursor_left(c, c.ds.cursor.col - index)
    ELSE IF index > c.ds.cursor.col THEN ct_move_cursor_right(c, index - c.ds.cursor.col)
    ELSE c

\* RenderData::line(i) of the editor e.
data_line(e, i) == LineSeq(e.buf)[i + 1]

ct_draw_cursor(c, e) ==
    ct_move_cursor_to_index(ct_move_cursor_to_line(c, e.focus.ln),
                            Min(e.focus.col, Len(data_line(e, e.focus.ln))))

draw_header(c) ==
    queue_all(
        [arith_usize(c, c.ds.line_start - 1) EXCEPT
            !.ds.height = wrap_usize(@ + 1),
            !.ds.line_start = wrap_usize(@ - 1),
            !.ds.cursor.ln = wrap_usize(@ + 1)],
        <<Cmd("ToLeftMargin", 0, <<>>), Cmd("Output", 0, Header),
          Cmd("Clear", 0, <<"UntilNewLine">>), Cmd("Output", 0, <<NL>>)>>)

draw_footer(c) ==
    queue_all(
        [c EXCEPT !.ds.height = wrap_usize(@ + 1),
                  !.ds.cursor.ln = wrap_usize(@ + 1),
                  !.ds.cursor.col = 0],
        <<Cmd("Output", 0, <<NL>>), Cmd("ToLeftMargin", 0, <<>>), Cmd("Output", 0, Footer),
          Cmd("Clear", 0, <<"UntilNewLine">>), Cmd("MoveToColumn", TOTAL_MARGIN + 1, <<>>)>>)

ct_draw_line(c, e, i) ==
    queue_all(c, <<Cmd("ToLeftMargin", 0, <<>>), Cmd("Output", 0, Margin),
                   Cmd("Output", 0, data_line(e, i)), Cmd("Clear", 0, <<"UntilNewLine">>)>>)

\* The loop of CrosstermRenderer::draw from line i on.
RECURSIVE ct_draw_lines(_, _, _, _)
ct_draw_lines(c, e, i, high) ==
    IF i >= high THEN c
    ELSE ct_draw_lines(IF i < high - 1
                       THEN queue(ct_draw_line(c, e, i), Cmd("Output", 0, <<NL>>))
                       ELSE ct_draw_line(c, e, i),
                       e, i + 1, high)

\* The range draw gets from the planner in build c.build: None where a debug
\* build panics.
planned(c, e, size) ==
    IF None \in calculate_draw_range(e, size) /\ c.build = "debug" THEN None
    ELSE CHOOSE o \in calculate_draw_range(e, size) : o # None

ct_draw(c, e, size) ==
    IF planned(c, e, size) = None THEN [c EXCEPT !.ok = FALSE, !.under = TRUE]
    ELSE LET low == unwrap(planned(c, e, size))[1]
             high == unwrap(planned(c, e, size))[2]
             drawn == ct_draw_lines(
                          draw_header([c EXCEPT !.ds = DrawState(0, 0, Cursor(0, 0)),
                                                !.under = @ \/ None \in calculate_draw_range(e, size)]),
                          e, low, high)
         IN  IF high = 0 THEN [drawn EXCEPT !.ok = FALSE]
             ELSE flush(ct_draw_cursor(draw_footer(queue(
                    [arith_usize(drawn, high - low - 1) EXCEPT
                        !.ds.line_start = wrap_usize(@ + low),
                        !.ds.height = wrap_usize(@ + high - low),
                        !.ds.cursor.ln = wrap_usize(@ + high - low - 1),
                        !.ds.cursor.col = wrap_usize(@ + Len(data_line(e, high - 1)))],
                    Cmd("Clear", 0, <<"FromCursorDown">>))), e))

ct_clear_draw_in_place(c) ==
    [queue_all(c, <<Cmd("ToLeftMargin", 0, <<>>), Cmd("Clear", 0, <<"FromCursorDown">>)>>)
        EXCEPT !.ds = DrawState(0, 0, Cursor(0, 0))]

ct_clear_draw(c) ==
    [queue_all(ct_move_cursor_up(c, c.ds.cursor.ln),
               <<Cmd("ToLeftMargin", 0, <<>>), Cmd("Clear", 0, <<"FromCursorDown">>)>>)
        EXCEPT !.ds = DrawState(0, 0, Cursor(0, 0))]

ct_redraw(c, e, size) == ct_draw(ct_move_cursor_up(c, c.ds.cursor.ln), e, size)

finish(c) == flush(ct_clear_draw(c))

\* --------------------------------------------- a CrosstermRenderer at work
\* Longest buffer handed to the CrosstermRenderer.
CtLen == 2
\* Most rows of the terminal it asks for.
CtRows == 4

\* Rows of the terminal the replay keeps the text of.
CtScreen == CtLen + 5

\* view holds the renderer and what it draws on: size what terminal::size()
\* answers, ds the renderer's DrawState, and build, out, t, top and call as
\* for the LazyRenderer.  The data drawn is the editor's buffer and focus.
Ct == CrosstermRenderer(view.ds, view.build)

CtInit ==
    /\ buf \in SeqsUpTo({"a", NL}, CtLen)
    /\ \E l \in 0..(len_lines(buf) - 1), c \in 0..1 : focus = Cursor(l, c)
    /\ anchor = None
    /\ panicked = FALSE
    /\ op = [name |-> "new", anchored |-> FALSE, br |-> "none", sel |-> FALSE]
    /\ ret = None
    /\ rt = None
    /\ ses = None
    /\ \E size \in {None} \cup {Some(rows) : rows \in 0..CtRows},
          build \in {"debug", "release"} :
          view = [size |-> size,
                  ds |-> DrawState(0, 0, Cursor(0, 0)),
                  build |-> build,
                  out |-> <<>>,
                  t |-> Terminal(0, 0, blank(CtScreen)),
                  top |-> 0,
                  call |-> "new",
                  under |-> FALSE]

CtShown(name, c, top) ==
    /\ panicked' = ~c.ok
    /\ view' = [view EXCEPT !.ds = c.ds, !.out = c.out, !.t = replay(view.t, c.out),
                            !.top = top, !.call = name, !.under = c.under]
    /\ UNCHANGED <<buf, focus, anchor, op, ret, rt, ses>>

\* A frame from row on is on the rows the terminal keeps.
CtFits(row) == 0 <= row /\ row + len_lines(buf) + 2 <= CtScreen

CtLive == ~panicked /\ view.call # "finish"

CtDraw ==
    /\ CtLive /\ CtFits(view.t.row)
    /\ \E c \in {ct_draw(Ct, Cur, view.size)} : CtShown("draw", c, view.t.row)

CtRedraw ==
    /\ CtLive
    /\ \E top \in {replay(view.t, ct_move_cursor_up(Ct, view.ds.cursor.ln).out).row} :
          /\ CtFits(top)
          /\ \E c \in {ct_redraw(Ct, Cur, view.size)} : CtShown("redraw", c, top)

CtClearDraw ==
    /\ CtLive
    /\ \E c \in {ct_clear_draw(Ct)} : CtShown("clear_draw", c, view.top)

CtFinish ==
    /\ CtLive
    /\ \E c \in {finish(Ct)} : CtShown("finish", c, view.top)

\* The editor at work between two frames.
CtEdit == CtLive /\ (MoveUp(FALSE) \/ MoveDown(FALSE) \/ Backspace)

CtNext == CtDraw \/ CtRedraw \/ CtClearDraw \/ CtFinish \/ CtEdit

CtSpec == CtInit /\ [][CtNext]_vars

CtTracked ==
    /\ view.t.row - view.top = view.ds.cursor.ln
    /\ view.t.col - TOTAL_MARGIN = view.ds.cursor.col

\* C28: after any sequence of draw, redraw and clear_draw calls with edits of
\* the data in between, the recorded terminal cursor of the frame on screen
\* is the terminal's cursor as the replay of every queued command leaves it,
\* counted from the frame's first row and the end of the margin.
C28_CursorTracked == (~panicked /\ view.call \in {"draw", "redraw"}) => CtTracked

\* A clear_draw or a finish of the frame a draw or a redraw left on screen.
ClearOfFrame ==
    /\ view.call \in {"draw", "redraw"} /\ ~panicked
    /\ view'.call \in {"clear_draw", "finish"} /\ ~panicked'

\* C29: clear_draw after any sequence of draws and redraws clears every
\* terminal row of the frame drawn last, header and footer included, and
\* leaves the empty DrawState (height 0, cursor (0, 0)); finish queues what
\* clear_draw queues and then a flush, and nothing else.
C29_ClearDrawClearsFrame ==
    [][ClearOfFrame =>
          /\ \A y \in view.top..(view.top + view.ds.height - 1) : view'.t.screen[y] = <<>>
          /\ view'.ds = DrawState(0, 0, Cursor(0, 0))
          /\ view'.call = "finish" =>
                view'.out = ct_clear_draw(Ct).out \o <<Cmd("Flush", 0, <<>>)>>]_vars

\* -------------------------------------------------- failures in the read loop
\* Editor::read (src/src/editor/mod.rs) and Editor::read_multiline
\* (src/src/editor.rs) call the renderer, the terminal and the key reader;
\* each call returns a Result and is followed by `?`.  ses holds the call
\* running: fn the function, pc its next call, log the calls made so far with
\* their outcome, more what the last key read answered, reads the key reads
\* so far, res and text what the function returned.

\* Most keys read in one session.
MaxReads == 3

Done(op_, ok) == [op |-> op_, ok |-> ok]

\* A call that fails and is made again, instead of returning.
question_retry(s, op_, ok, next) ==
    [s EXCEPT !.log = Append(@, Done(op_, ok)), !.pc = IF ok THEN next ELSE @]

\* `call()?`: go on with next after Ok, return the Err at once otherwise.
question(s, op_, ok, next) ==
    IF ok THEN [s EXCEPT !.log = Append(@, Done(op_, TRUE)), !.pc = next]
    ELSE [s EXCEPT !.log = Append(@, Done(op_, FALSE)), !.pc = "returned", !.res = "Err"]

\* The call made at pc.
IoOp(pc) ==
    CASE pc \in {"draw_flush", "redraw_flush", "finish_flush", "clear_flush"} -> "flush"
      [] OTHER -> pc

\* Where a call of the renderer or of the terminal goes on after Ok.
IoAfter(s) ==
    IF s.fn = "read"
    THEN CASE s.pc = "draw" -> "draw_flush"
           [] s.pc = "draw_flush" -> "read_key"
           [] s.pc = "clear_draw" -> "finish_flush"
           [] s.pc = "finish_flush" -> "return"
    ELSE CASE s.pc = "draw" -> "draw_flush"
           [] s.pc = "draw_flush" -> "enable_raw_mode"
           [] s.pc = "enable_raw_mode" -> "read_key"
           [] s.pc = "redraw" -> "redraw_flush"
           [] s.pc = "redraw_flush" -> IF s.more THEN "read_key" ELSE "clear_line"
           [] s.pc = "clear_line" -> "clear_flush"
           [] s.pc = "clear_flush" -> "disable_raw_mode"
           [] s.pc = "disable_raw_mode" -> "return"

\* Ok(()) of read, Ok(buf.to_string()) of read_multiline.
returned(s, b) ==
    IF s.pc # "return" THEN s
    ELSE [s EXCEPT !.pc = "returned", !.res = "Ok",
                   !.text = IF s.fn = "read_multiline" THEN Some(b) ELSE None]

IoCalls == {"draw", "draw_flush", "enable_raw_mode", "redraw", "redraw_flush",
            "clear_draw", "finish_flush", "clear_line", "clear_flush", "disable_raw_mode"}

\* The keys of a session: a character, Enter, Esc.
IoEvents(fn) ==
    {KeyEvent("Char", "a", FALSE, FALSE, FALSE), Key("Esc")}
    \cup IF fn = "read" THEN {Key("Enter")} ELSE {}

IoInit ==
    /\ buf = <<>>
    /\ focus = Cursor(0, 0)
    /\ anchor = None
    /\ panicked = FALSE
    /\ op = [name |-> "new", anchored |-> FALSE, br |-> "none", sel |-> FALSE]
    /\ ret = None
    /\ rt = None
    /\ \E fn \in {"read", "read_multiline"} :
          ses = [fn |-> fn, pc |-> "draw", log |-> <<>>, more |-> TRUE, reads |-> 0,
                 res |-> "running", text |-> None]
    /\ view = [frame |-> None, flushed |-> FALSE]

\* What is on the terminal after a successful call: view.frame is the data the
\* queued frame was drawn from, view.flushed whether a flush has sent it.
framed(v, op_, e) ==
    CASE op_ \in {"draw", "redraw"} -> [frame |-> Some(e), flushed |-> FALSE]
      [] op_ = "clear_draw" -> [frame |-> None, flushed |-> FALSE]
      [] op_ = "flush" -> [v EXCEPT !.flushed = TRUE]
      [] OTHER -> v

\* A call of the renderer or of the terminal, which the device lets succeed
\* or fail.
IoCall ==
    /\ ~panicked
    /\ ses.pc \in IoCalls
    /\ \E ok \in BOOLEAN :
          /\ ses' = returned(question(ses, IoOp(ses.pc), ok, IoAfter(ses)), buf)
          /\ view' = IF ~ok THEN view ELSE framed(view, IoOp(ses.pc), Cur)
    /\ UNCHANGED <<buf, focus, anchor, panicked, op, ret, rt>>

\* keybinding.read: the event read fails, or the key is applied to the
\* editor and tells whether the loop goes on.
IoKey ==
    /\ ~panicked
    /\ ses.pc = "read_key"
    /\ \/ /\ ses' = question(ses, "read_key", FALSE, "read_key")
          /\ UNCHANGED <<buf, focus, anchor, panicked>>
       \/ \E event \in IoEvents(ses.fn) :
             /\ ses.reads < MaxReads \/ event.code = "Esc"
             /\ \E r \in {read_event(Cur, event)} :
                   /\ Apply(r.ed)
                   /\ ses' = [question(ses, "read_key", TRUE,
                                       IF ses.fn = "read_multiline" THEN "redraw"
                                       ELSE IF r.cont THEN "draw" ELSE "clear_draw")
                                 EXCEPT !.more = r.cont, !.reads = @ + 1]
    /\ UNCHANGED <<op, ret, rt, view>>

\* The renderer Editor::read was given goes out of scope when read returns:
\* CrosstermRenderer's Drop leaves raw mode.
IoDrop ==
    /\ ~panicked
    /\ ses.fn = "read" /\ ses.pc = "returned"
    /\ ses' = [ses EXCEPT !.pc = "dropped", !.log = Append(@, Done("drop", TRUE))]
    /\ UNCHANGED <<buf, focus, anchor, panicked, op, ret, rt, view>>

IoNext == IoCall \/ IoKey \/ IoDrop

IoSpec == IoInit /\ [][IoNext]_vars

\* C30: once a terminal write, move, flush or key read of the read loop has
\* failed, the function has returned the failure: the failed call is the last
\* write, move, flush or key read of the session (none is made after it and
\* it is not made again), and no text is returned.
C30_FailureReturnedAtOnce ==
    \A i \in 1..Len(ses.log) :
        ~ses.log[i].ok =>
            /\ \A j \in (i + 1)..Len(ses.log) : ses.log[j].op = "drop"
            /\ ses.pc \in {"returned", "dropped"}
            /\ ses.res = "Err"
            /\ ses.text = None

\* read_multiline returned a failure of the flush after a redraw, with a
\* character typed and a second key read before it.
C30_Witness ==
    /\ ses.fn = "read_multiline" /\ ses.res = "Err" /\ ses.text = None
    /\ buf # <<>>
    /\ ses.reads = 2
    /\ ses.log[Len(ses.log)] = Done("flush", FALSE)

\* Raw input mode as the calls of the session left it.  Editor::read is
\* given a CrosstermRenderer, whose render_to enabled raw mode and whose drop
\* disables it; read_multiline enables and disables it itself.
RawOn ==
    LET on  == {i \in 1..Len(ses.log) : ses.log[i] = Done("enable_raw_mode", TRUE)}
        off == {i \in 1..Len(ses.log) :
                   ses.log[i] \in {Done("disable_raw_mode", TRUE), Done("drop", TRUE)}}
    IN  IF ses.fn = "read" THEN off = {}
        ELSE \E i \in on : \A j \in off : j < i

\* The session is over: the function has returned and what it owned is dropped.
Exited == IF ses.fn = "read" THEN ses.pc = "dropped" ELSE ses.pc = "returned"

\* C31: raw input mode enabled for the read loop is disabled again on every
\* exit path of the session, the normal one and every early return on a
\* failed key read, draw, redraw or flush.
C31_RawModeReleased == Exited => ~RawOn

\* The calls of the session so far that went well and were made for op_.
Calls(op_) == {i \in 1..Len(ses.log) : ses.log[i] = Done(op_, TRUE)}

\* C32: every key dispatch comes after a completed, flushed frame of the
\* data as it is (two keys never follow each other without a frame); after
\* the dispatcher answered stop no key is read; and when the session returns
\* Ok the cleanup that clears the drawn frame has run exactly once, after the
\* last key.
C32_FrameBeforeKey ==
    /\ ses.pc = "read_key" => view = [frame |-> Some(Cur), flushed |-> TRUE]
    /\ \A i, j \in Calls("read_key") :
          i < j => \E k \in Calls("draw") \cup Calls("redraw") : i < k /\ k < j
    /\ ~ses.more => ses.pc # "read_key"
    /\ ses.res = "Ok" =>
          /\ Cardinality(Calls("clear_draw")) = 1
          /\ \A i \in Calls("read_key"), k \in Calls("clear_draw") : i < k

\* --------------------------- MultilineTerm::read_multiline (src/src/lib.rs)
\* The line editor over a Vec<String>: ses.term holds its buffers, cursor,
\* options.empty_padding and options.anchor.  The calls of the renderer and of
\* the terminal in between change none of these and are left out.

\* Most lines of a session.
TermLines == 3
\* Longest line of a session.
TermChars == 2

Mt(buffers, cursor, padding, mode) ==
    [buffers |-> buffers, cursor |-> cursor, padding |-> padding, anchor |-> mode]

\* Vec::remove and Vec::insert, 0-based.
vec_remove(v, i) == SubSeq(v, 1, i) \o SubSeq(v, i + 2, Len(v))

vec_insert(v, i, x) == SubSeq(v, 1, i) \o <<x>> \o SubSeq(v, i + 1, Len(v))

current_line(m) == IF m.buffers = <<>> THEN <<>> ELSE m.buffers[m.cursor.line + 1]

\* current_line_mut allocates the first line of an empty buffer.
allocated(m) == IF m.buffers = <<>> THEN [m EXCEPT !.buffers = <<<<>>>>] ELSE m

ensure_cursor_index(m) == Min(m.cursor.index, current_line_len(m))

ensured(m) == [m EXCEPT !.cursor.index = ensure_cursor_index(m)]

go_on(m) == [m |-> m, cont |-> TRUE, err |-> FALSE]

break(m) == [m |-> m, cont |-> FALSE, err |-> FALSE]

key_arrow_down(m) ==
    IF m.buffers # <<>> /\ m.cursor.line + 1 < Len(m.buffers)
    THEN go_on([m EXCEPT !.cursor.line = @ + 1])
    ELSE go_on(m)

key_arrow_up(m) ==
    IF m.buffers # <<>> /\ m.cursor.line > 0
    THEN go_on([m EXCEPT !.cursor.line = @ - 1])
    ELSE go_on(m)

key_arrow_left(m) ==
    IF m.buffers = <<>> THEN go_on(m)
    ELSE LET e == ensured(m)
         IN  IF e.cursor.index > 0 THEN go_on([e EXCEPT !.cursor.index = @ - 1])
             ELSE IF e.cursor.line > 0
             THEN go_on([e EXCEPT !.cursor.line = @ - 1,
                                  !.cursor.index = Len(e.buffers[e.cursor.line])])
             ELSE go_on(e)

key_arrow_right(m) ==
    IF m.buffers = <<>> THEN go_on(m)
    ELSE LET e == ensured(m)
         IN  IF e.cursor.index < current_line_len(e)
             THEN go_on([e EXCEPT !.cursor.index = @ + 1])
             ELSE IF e.cursor.line + 1 < Len(e.buffers)
             THEN go_on([e EXCEPT !.cursor.line = @ + 1, !.cursor.index = 0])
             ELSE go_on(e)

\* A join that forgets the padding of AnchorMode::Bottom.
key_back_unpadded(m) ==
    IF m.buffers = <<>> THEN go_on(m)
    ELSE LET e == ensured(m)
             i == e.cursor.index
             l == e.cursor.line
         IN  IF i > 0
             THEN go_on([e EXCEPT !.buffers[l + 1] = vec_remove(@, i - 1),
                                  !.cursor.index = i - 1])
             ELSE IF l > 0
             THEN go_on([e EXCEPT !.buffers = vec_remove([@ EXCEPT ![l] = @ \o e.buffers[l + 1]], l),
                                  !.cursor.line = l - 1,
                                  !.cursor.index = Len(e.buffers[l])])
             ELSE go_on(e)

key_back(m) ==
    IF m.buffers = <<>> THEN go_on(m)
    ELSE LET e == ensured(m)
             i == e.cursor.index
             l == e.cursor.line
         IN  IF i > 0
             THEN go_on([e EXCEPT !.buffers[l + 1] = vec_remove(@, i - 1),
                                  !.cursor.index = i - 1])
             ELSE IF l > 0
             THEN go_on([e EXCEPT !.padding = IF e.anchor = "Bottom" THEN @ + 1 ELSE @,
                                  !.buffers = vec_remove([@ EXCEPT ![l] = @ \o e.buffers[l + 1]], l),
                                  !.cursor.line = l - 1,
                                  !.cursor.index = Len(e.buffers[l])])
             ELSE go_on(e)

key_char(m, c) ==
    LET e == allocated(ensured(m))
        i == e.cursor.index
    IN  go_on([e EXCEPT !.buffers[e.cursor.line + 1] = vec_insert(@, i, c),
                        !.cursor.index = i + 1])

\* move_cursor_to_bottom moves the terminal's cursor and returns a line
\* number that Escape drops: cursor.line stays.
key_escape(m) ==
    IF m.buffers # <<>> /\ current_line_len(m) = 0
    THEN break([m EXCEPT !.buffers = vec_remove(@, m.cursor.line)])
    ELSE break(m)

key_enter(m) ==
    IF m.buffers = <<>> THEN break(m)
    ELSE IF m.cursor.line + 1 = Len(m.buffers) /\ current_line_len(m) = 0
    THEN break([m EXCEPT !.buffers = vec_remove(@, m.cursor.line)])
    ELSE LET e == ensured(m)
             i == e.cursor.index
             l == e.cursor.line
             cbuf == e.buffers[l + 1]
         IN  go_on([e EXCEPT
                 !.buffers = vec_insert([@ EXCEPT ![l + 1] = SubSeq(cbuf, 1, i)], l + 1,
                                        SubSeq(cbuf, i + 1, Len(cbuf))),
                 !.cursor = LineIndex(l + 1, 0),
                 !.padding = IF e.anchor = "Bottom" /\ @ # 0 THEN @ - 1 ELSE @])

TermKeys == {"ArrowDown", "ArrowUp", "ArrowLeft", "ArrowRight", "Back", "Char",
             "Escape", "Enter", "Tab"}

\* The match of read_multiline on the key read.
on_key(m, key) ==
    CASE key = "ArrowDown" -> key_arrow_down(m)
      [] key = "ArrowUp" -> key_arrow_up(m)
      [] key = "ArrowLeft" -> key_arrow_left(m)
      [] key = "ArrowRight" -> key_arrow_right(m)
      [] key = "Back" -> key_back(m)
      [] key = "Char" -> key_char(m, "a")
      [] key = "Escape" -> key_escape(m)
      [] key = "Enter" -> key_enter(m)
      [] OTHER -> [m |-> m, cont |-> FALSE, err |-> TRUE]

\* The lines joined with a line feed between them.
RECURSIVE joined(_)
joined(bufs) ==
    IF bufs = <<>> THEN <<>>
    ELSE IF Len(bufs) = 1 THEN bufs[1]
    ELSE bufs[1] \o <<NL>> \o joined(Tail(bufs))

\* The model stays within the lines and characters a session may have.
TermFits(m) ==
    /\ Len(m.buffers) <= TermLines
    /\ \A i \in 1..Len(m.buffers) : Len(m.buffers[i]) <= TermChars

TermInit ==
    /\ buf = <<>>
    /\ focus = Cursor(0, 0)
    /\ anchor = None
    /\ panicked = FALSE
    /\ op = [name |-> "new", anchored |-> FALSE, br |-> "none", sel |-> FALSE]
    /\ ret = None
    /\ rt = None
    /\ \E mode \in {"InPlace", "Bottom"} :
          ses = [term |-> Mt(<<>>, LineIndex(0, 0), 0, mode), pc |-> "read",
                 key |-> "none", out |-> None]
    /\ view = None

\* One turn of the loop; a key that ends the loop also runs what follows it:
\* the join of the lines and the return.
TermKey ==
    /\ ses.pc = "read"
    /\ \E key \in TermKeys :
          \E r \in {on_key(ses.term, key)} :
             /\ TermFits(r.m)
             /\ ses' = [term |-> r.m,
                        pc |-> IF r.cont THEN "read" ELSE "returned",
                        key |-> key,
                        out |-> IF r.cont \/ r.err THEN None ELSE Some(joined(r.m.buffers))]
    /\ UNCHANGED <<buf, focus, anchor, panicked, op, ret, rt, view>>

TermSpec == TermInit /\ [][TermKey]_vars

\* C33: whichever way the session ends, Enter on the empty last line or
\* Escape with the cursor anywhere, the string returned does not end with a
\* line feed: the final empty line is not part of it.
C33_NoTrailingNewline ==
    (ses.pc = "returned" /\ ses.out # None /\ unwrap(ses.out) # <<>>) =>
        unwrap(ses.out)[Len(unwrap(ses.out))] # NL

\* A Backspace or an Enter after which the loop goes on.
JoinOrSplit == ses.pc = "read" /\ ses'.pc = "read" /\ ses'.key \in {"Back", "Enter"}

\* C38: with AnchorMode::Bottom no Backspace (a line join among them) and no
\* Enter that splits a line lowers buffers.len() + empty_padding, and
\* empty_padding never goes below zero; with AnchorMode::InPlace
\* empty_padding stays 0.
C38_PaddingKeepsHeight ==
    [][/\ JoinOrSplit /\ ses.term.anchor = "Bottom" =>
             Len(ses'.term.buffers) + ses'.term.padding
                 >= Len(ses.term.buffers) + ses.term.padding
       /\ ses'.term.padding >= 0
       /\ ses.term.anchor = "InPlace" => ses'.term.padding = 0]_vars

\* Two lines were joined twice under AnchorMode::Bottom: one line of two
\* characters is left above two rows of padding.
C38_Witness ==
    /\ ses.pc = "read" /\ ses.key = "Back"
    /\ ses.term.anchor = "Bottom"
    /\ ses.term.padding = 2
    /\ ses.term.buffers = <<<<"a", "a">>>>

\* C34: in draw, redraw and clear_draw of the CrosstermRenderer, for every
\* buffer, cursor and terminal height, no unsigned counter (line_start,
\* height, cursor.ln, cursor.col, the row budget) is taken below zero.
C34_NoUnsignedUnderflow == ~view.under

\* C35: after a draw and after a redraw of any classification has returned,
\* the snapshot pbuf has the length and the entries of the model's lines, so
\* that a redraw of the same model right after finds no line that differs.
C35_SnapshotIsModel ==
    (view.call \in {"draw", "redraw"} /\ ~panicked) =>
        /\ view.pbuf = view.term.buffers
        /\ find_diff(Rend, view.term).kind \in {"NoChange", "RedrawCursor"}

\* ------------------------------------------------------------ cursor moves
\* Sessions of cursor operations only.  rt keeps, for the last call and the
\* one before it, whether it was move_up or move_down and the focus it
\* started from.
Moving(name, from) == [name |-> name, from |-> from]

MoveInit ==
    /\ buf \in SeqsUpTo(Char, MaxLen)
    /\ focus = Cursor(0, 0)
    /\ anchor = None
    /\ panicked = FALSE
    /\ op = [name |-> "new", anchored |-> FALSE, br |-> "none", sel |-> FALSE]
    /\ ret = None
    /\ rt = [last |-> Moving("none", None), prev |-> Moving("none", None)]
    /\ ses = None
    /\ view = None

Moved(name, anchored, r) ==
    /\ Step(name, anchored, r)
    /\ rt' = [last |-> IF name \in {"move_up", "move_down"} THEN Moving(name, Some(focus))
                       ELSE Moving("other", None),
              prev |-> rt.last]
    /\ UNCHANGED <<ses, view>>

MoveNext ==
    \/ Moved("clamp", FALSE, clamp(Cur))
    \/ Moved("move_to_top", FALSE, move_to_top(Cur))
    \/ Moved("move_to_bottom", FALSE, move_to_bottom(Cur))
    \/ \E anchored \in BOOLEAN :
          \/ Moved("move_right", anchored, move_right(Cur, anchored))
          \/ Moved("move_left", anchored, move_left(Cur, anchored))
          \/ Moved("move_up", anchored, move_up(Cur, anchored))
          \/ Moved("move_down", anchored, move_down(Cur, anchored))
          \/ Moved("move_to_line_end", anchored, move_to_line_end(Cur, anchored))
          \/ \E col \in 0..MaxCol : Moved("move_to_col", anchored, move_to_col(Cur, col, anchored))

MoveSpec == MoveInit /\ [][MoveNext]_vars

\* C36: no cursor operation, with either anchored flag, changes the buffer:
\* text, line count and character count are after it what they were before.
C36_MovesKeepBuffer ==
    [][/\ buf' = buf
       /\ len_lines(buf') = len_lines(buf)
       /\ len_chars(buf') = len_chars(buf)]_vars

\* move_to_col went to a column beyond the end of a line of a buffer with
\* text, with the anchored flag set.
C36_Witness ==
    /\ op.name = "move_to_col" /\ op.anchored /\ ~panicked
    /\ focus.col > 0 /\ buf # <<>> /\ len_lines(buf) > 1

\* C37: move_down from a line that is not the last followed by move_up, and
\* move_up from a line that is not the first followed by move_down, bring the
\* focus back to the line and the column it started from, even when the
\* line in between is shorter than the column.
C37_VerticalRoundTrip ==
    /\ (op.name = "move_up" /\ rt.prev.name = "move_down" /\ ~panicked
            /\ unwrap(rt.prev.from).ln + 1 < len_lines(buf))
          => focus = unwrap(rt.prev.from)
    /\ (op.name = "move_down" /\ rt.prev.name = "move_up" /\ ~panicked
            /\ unwrap(rt.prev.from).ln > 0)
          => focus = unwrap(rt.prev.from)

\* Down and up again over a line shorter than the column.
C37_Witness ==
    /\ op.name = "move_up" /\ rt.prev.name = "move_down" /\ ~panicked
    /\ unwrap(rt.prev.from).ln + 1 < len_lines(buf)
    /\ focus = unwrap(rt.prev.from)
    /\ focus.col > Len(LineSeq(buf)[focus.ln + 2])
====
